---- MODULE Spec2Model ----
(***************************************************************************)
(* Model of the Rin backend's local decision pipeline.                     *)
(*                                                                         *)
(*   backend/semantic_layer.py  TitleParser, SemanticLayer (the parts the  *)
(*                              episode aggregator reads)                  *)
(*   backend/fog_layer.py       FogLayer: episodes, their life cycle,      *)
(*                              history and pending queue                  *)
(*   backend/database.py        lookup_app_in_kb, get_behavior_policy      *)
(*   backend/knowledge_gate.py  KnowledgeGate: check, get_stats,           *)
(*                              reset_stats                                *)
(*                                                                         *)
(* Time is an integer clock.  Every time.time() call of the code is a      *)
(* separate reading of that clock: readings inside one call may differ.    *)
(***************************************************************************)
EXTENDS Integers, Sequences, FiniteSets, TLC

(***************************************************************************)
(* Bounds of the model.                                                    *)
(***************************************************************************)
\* last value of the clock
MaxTime == 2
\* number of add_observation calls in a run
MaxCalls == 3
\* clock units that may pass between the readings of one call
MaxDrift == 1
\* cadence of the external sampler, in clock units
TickInterval == 1
\* episodes already closed when a run on a long-lived FogLayer begins
Warmup == 49
\* number of KnowledgeGate.check calls between two resets of the counters
MaxChecks == 2
\* calls of extract_features in one run
MaxSemCalls == 5
\* ticks a SemanticLayer in use has seen before the run
SemWarmup == 19
\* seconds an AppTracker is watched for
MaxTrackTime == 3
\* rows of app_activity after which the tracker is not started again
MaxRows == 2

(***************************************************************************)
(* Python values.                                                          *)
(***************************************************************************)
\* None, for Optional[str] and Optional[bytes] fields
None == "None"
\* None, for Optional[float] fields (Episode.end_time)
NoTime == -1
\* None, for Optional[Episode] (FogLayer.current_episode, return values)
NoEpisode == 0

\* truth value of an Optional[str] / Optional[bytes] in a condition
Truthy(s) == s # None /\ s # ""

Last(s) == s[Len(s)]

(***************************************************************************)
(* Window titles.  A title is the sequence of its parts between the        *)
(* separator " - " (what title.split(" - ") returns); the empty title ""   *)
(* is <<>>.  The parts are literal strings without surrounding blanks, so  *)
(* strip() leaves them as they are.  What the code reads off the           *)
(* characters of a part is tabulated below for the parts the model uses.   *)
(***************************************************************************)
\* last_part[0].isupper()
UpperFirst(part) ==
    part \in {"Visual Studio Code", "YouTube", "Lo-fi Beats", "Discord"}

\* len(last_part)
PartLen(part) ==
    CASE part = "Visual Studio Code" -> 18
      [] part = "Lo-fi Beats" -> 11
      [] part = "YouTube" -> 7
      [] part = "main.py" -> 7
      [] part = "Discord" -> 7
      [] part = "general" -> 7
      [] part = "myproj" -> 6
      [] part = "notes" -> 5
      [] OTHER -> 0

\* re.search(r'(\w+\.(\w+))', part): the match and its lower-cased extension
HasFile(part) == part \in {"main.py"}
FileName(part) == part
FileExt(part) == IF part = "main.py" THEN ".py" ELSE None

\* domain in part.lower(), for the keys of URL_DOMAINS
ContainsDomain(part, domain) ==
    \/ part = "YouTube" /\ domain = "youtube"
    \/ part = "Discord" /\ domain = "discord"

\* TitleParser.FILE_EXTENSIONS (its keys)
FILE_EXTENSIONS ==
    {".py", ".js", ".ts", ".tsx", ".jsx", ".html", ".css", ".json", ".md",
     ".cpp", ".c", ".rs", ".go", ".java"}

\* TitleParser.URL_DOMAINS, in the order the dict is iterated
URL_DOMAINS ==
    << <<"youtube", "YouTube">>, <<"github", "GitHub">>,
       <<"stackoverflow", "Stack Overflow">>, <<"reddit", "Reddit">>,
       <<"twitter", "Twitter">>, <<"twitch", "Twitch">>,
       <<"discord", "Discord">> >>

\* TitleParser._extract_app_name raises IndexError: the last part is empty
ExtractRaises(title) == Len(title) >= 2 /\ Last(title) = ""

\* TitleParser._extract_app_name
ExtractAppName(title) ==
    IF Len(title) >= 2 /\ PartLen(Last(title)) < 30 /\ UpperFirst(Last(title))
    THEN Last(title)
    ELSE None

\* the first part of the title that holds a word.word match, 0 when none does
FirstFilePart(title) ==
    IF \E i \in 1..Len(title) : HasFile(title[i])
    THEN CHOOSE i \in 1..Len(title) :
            HasFile(title[i]) /\ \A j \in 1..(i - 1) : ~HasFile(title[j])
    ELSE 0

\* the first entry of URL_DOMAINS whose domain occurs in the title, 0 when none
FirstDomain(title) ==
    LET hit(k) == \E i \in 1..Len(title) : ContainsDomain(title[i], URL_DOMAINS[k][1])
    IN  IF \E k \in 1..Len(URL_DOMAINS) : hit(k)
        THEN CHOOSE k \in 1..Len(URL_DOMAINS) :
                hit(k) /\ \A j \in 1..(k - 1) : ~hit(j)
        ELSE 0

\* ParsedTitle(raw_title=title): every optional field None
EmptyParsedTitle(title) ==
    [raw_title |-> title, app_name |-> None, file_name |-> None,
     file_extension |-> None, project_name |-> None, url_domain |-> None,
     platform |-> None, content_title |-> None]

\* a parse that fills in the app name it was given before it looks at the title
ParseKeepsAppName(title, app_name) ==
    [EmptyParsedTitle(title) EXCEPT
        !.app_name = IF app_name # "" THEN app_name ELSE None]

\* TitleParser.parse
Parse(title, app_name) ==
    IF title = <<>> THEN EmptyParsedTitle(title)
    ELSE
    LET f == FirstFilePart(title)
        d == FirstDomain(title)
        vscode == Len(title) >= 3 /\ title[3] = "Visual Studio Code"
    IN  [raw_title |-> title,
         app_name |-> IF app_name # "" THEN app_name ELSE ExtractAppName(title),
         file_name |-> IF vscode THEN title[1]
                       ELSE IF f # 0 THEN FileName(title[f]) ELSE None,
         file_extension |-> IF f # 0 /\ FileExt(title[f]) \in FILE_EXTENSIONS
                            THEN FileExt(title[f]) ELSE None,
         project_name |-> IF vscode THEN title[2] ELSE None,
         url_domain |-> IF d # 0 THEN URL_DOMAINS[d][1] ELSE None,
         platform |-> IF d # 0 THEN URL_DOMAINS[d][2] ELSE None,
         content_title |-> IF Len(title) >= 2 THEN title[1] ELSE None]

\* parse raises instead of returning (no app name given, title ends in " - ")
ParseRaises(title, app_name) ==
    title # <<>> /\ app_name = "" /\ ExtractRaises(title)

(***************************************************************************)
(* SemanticLayer: the activity type and the passive / focused flags of one *)
(* tick.  audio and visual are the AudioFeatures and VisualFeatures the    *)
(* two analyzers returned for the tick (their flags).                      *)
(***************************************************************************)
MEDIA_PLATFORMS == {"YouTube", "Twitch", "Netflix"}

\* a classification that asks for the media platform before the extension
ClassifyActivityMediaFirst(title, audio, visual, has_kb, has_mouse) ==
    IF title.platform \in MEDIA_PLATFORMS THEN "media"
    ELSE IF Truthy(title.file_extension) /\ title.file_extension \in FILE_EXTENSIONS
        THEN "coding"
    ELSE "general"

\* SemanticLayer._classify_activity
ClassifyActivity(title, audio, visual, has_kb, has_mouse) ==
    IF Truthy(title.file_extension) /\ title.file_extension \in FILE_EXTENSIONS
        THEN "coding"
    ELSE IF title.platform \in MEDIA_PLATFORMS THEN "media"
    ELSE IF visual.is_video_playing /\ audio.is_music_like THEN "media"
    ELSE IF title.platform = "Spotify"
            \/ (audio.is_music_like /\ ~visual.is_video_playing) THEN "music"
    ELSE IF title.platform \in {"Discord", "Slack"}
            \/ title.app_name \in {"Discord", "Slack"} THEN "communication"
    ELSE IF title.platform \in {"GitHub", "Stack Overflow"} THEN "research"
    ELSE IF Truthy(title.url_domain) /\ has_mouse /\ ~has_kb THEN "browsing"
    ELSE IF visual.is_video_playing /\ audio.has_audio /\ ~has_kb THEN "gaming"
    ELSE "general"

\* an extract_features whose focused flag does not ask for the audio
ExtractFeaturesFocusedWithAudio(window_title, app_name, audio, visual, has_kb, has_mouse) ==
    LET title == Parse(window_title, app_name)
    IN  [title |-> title,
         audio |-> audio,
         visual |-> visual,
         activity_type |-> ClassifyActivity(title, audio, visual, has_kb, has_mouse),
         is_passive |-> visual.is_video_playing
                        \/ (audio.is_music_like /\ ~has_kb)
                        \/ title.platform \in MEDIA_PLATFORMS,
         is_focused |-> has_kb /\ visual.is_stable
                        /\ title.file_extension \in FILE_EXTENSIONS]

\* SemanticLayer.extract_features, from the analyzers' results on
ExtractFeatures(window_title, app_name, audio, visual, has_kb, has_mouse) ==
    LET title == Parse(window_title, app_name)
    IN  [title |-> title,
         audio |-> audio,
         visual |-> visual,
         activity_type |-> ClassifyActivity(title, audio, visual, has_kb, has_mouse),
         is_passive |-> visual.is_video_playing
                        \/ (audio.is_music_like /\ ~has_kb)
                        \/ title.platform \in MEDIA_PLATFORMS,
         is_focused |-> has_kb /\ ~audio.has_audio /\ visual.is_stable
                        /\ title.file_extension \in FILE_EXTENSIONS]


(***************************************************************************)
(* AudioAnalyzer.  A buffer of audio bytes is given by what analyze reads   *)
(* off it: whether it is there at all (None and b"" are not), its length   *)
(* in bytes, the RMS of its int16 samples, and what the FFT of its first   *)
(* 4096 samples shows.  Volumes are in units of 1/32768, so that           *)
(* rms / 32768.0 * 10 is exact: 1.0 is VOLUME_ONE.                         *)
(***************************************************************************)
VOLUME_ONE == 32768

\* AudioFeatures(): the defaults of the dataclass
DefaultAudioFeatures ==
    [has_audio |-> FALSE, volume_level |-> 0, is_silent |-> TRUE,
     is_music_like |-> FALSE, is_speech_like |-> FALSE, volume_delta |-> 0]

\* audio_bytes=None
NoAudio == [present |-> FALSE, nbytes |-> 0, rms |-> 0, spectrum |-> "none"]

PcmAudio(nbytes, rms, spectrum) ==
    [present |-> TRUE, nbytes |-> nbytes, rms |-> rms, spectrum |-> spectrum]

\* np.frombuffer(audio_bytes, dtype=np.int16) raises ValueError: the length
\* is not a multiple of the sample size
FromBufferRaises(audio_bytes) == audio_bytes.nbytes % 2 = 1

\* AudioAnalyzer._analyze_frequency: (is_music, is_speech).  With fewer than
\* 4096 samples the mask of the 4096-point frequencies does not fit the
\* spectrum, the IndexError is caught and the answer is (False, False)
AnalyzeFrequency(audio_bytes) ==
    IF audio_bytes.nbytes \div 2 < 4096 THEN <<FALSE, FALSE>>
    ELSE CASE audio_bytes.spectrum = "music" -> <<TRUE, FALSE>>
           [] audio_bytes.spectrum = "speech" -> <<FALSE, TRUE>>
           [] OTHER -> <<FALSE, FALSE>>

\* AudioAnalyzer.analyze: the features it returns and last_volume after it
\* (volume_history is written and never read, and is left out)
AudioAnalyze(last_volume, audio_bytes) ==
    IF ~audio_bytes.present \/ audio_bytes.nbytes < 100
    THEN [features |-> DefaultAudioFeatures, last_volume |-> last_volume]
    ELSE IF FromBufferRaises(audio_bytes)
    THEN [features |-> DefaultAudioFeatures, last_volume |-> last_volume]
    ELSE
    LET volume_level ==
            IF 10 * audio_bytes.rms < VOLUME_ONE
            THEN 10 * audio_bytes.rms ELSE VOLUME_ONE
        has_audio == 100 * volume_level > VOLUME_ONE
        is_silent == 100 * volume_level < 2 * VOLUME_ONE
        freq ==
            IF audio_bytes.nbytes \div 2 >= 1024 /\ has_audio
            THEN AnalyzeFrequency(audio_bytes) ELSE <<FALSE, FALSE>>
    IN  [features |->
            [has_audio |-> has_audio, volume_level |-> volume_level,
             is_silent |-> is_silent, is_music_like |-> freq[1],
             is_speech_like |-> freq[2],
             volume_delta |-> volume_level - last_volume],
         last_volume |-> volume_level]

(***************************************************************************)
(* VisualAnalyzer.  Change percentages are whole per cent.                 *)
(***************************************************************************)
VISUAL_HISTORY_MAX == 20

RECURSIVE SumSeq(_)
SumSeq(q) == IF q = <<>> THEN 0 ELSE q[1] + SumSeq(Tail(q))

Squares(q) == [i \in DOMAIN q |-> q[i] * q[i]]

\* self.change_history[-5:]
Recent(history) ==
    SubSeq(history, IF Len(history) > 5 THEN Len(history) - 4 ELSE 1, Len(history))

\* np.mean(q) > 3.0 and np.std(q) < 15.0 for the five samples q; the
\* variance is (5 * sum of squares - square of the sum) / 25
VideoLike(q) ==
    /\ SumSeq(q) > 3 * 5
    /\ 5 * SumSeq(Squares(q)) - SumSeq(q) * SumSeq(q) < 15 * 15 * 25

\* a video test that does not wait for five samples
VisualAnalyzeWithoutFive(change_history, current_diff) ==
    LET appended == Append(change_history, current_diff)
        history == IF Len(appended) > VISUAL_HISTORY_MAX THEN Tail(appended)
                   ELSE appended
    IN  [features |->
            [is_stable |-> current_diff < 2,
             is_video_playing |-> VideoLike(Recent(history)),
             change_percentage |-> current_diff,
             dominant_change_region |-> None],
         change_history |-> history]

\* VisualAnalyzer.analyze: the features it returns and change_history after it
VisualAnalyze(change_history, current_diff) ==
    LET appended == Append(change_history, current_diff)
        history == IF Len(appended) > VISUAL_HISTORY_MAX THEN Tail(appended)
                   ELSE appended
    IN  [features |->
            [is_stable |-> current_diff < 2,
             is_video_playing |-> Len(history) >= 5 /\ VideoLike(Recent(history)),
             change_percentage |-> current_diff,
             dominant_change_region |-> None],
         change_history |-> history]

\* the call of extract_features did not return: parse raised
NoFeatures ==
    [title |-> EmptyParsedTitle(<<>>), audio |-> DefaultAudioFeatures,
     visual |-> [is_stable |-> TRUE, is_video_playing |-> FALSE,
                 change_percentage |-> 0, dominant_change_region |-> None],
     activity_type |-> None, is_passive |-> FALSE, is_focused |-> FALSE]

\* the history's entry before the first call of extract_features.
\* prev_returned: the call before it returned, and then prev_volume is the
\* volume_level that call reported; samples: the calls that have returned
NoSemCall ==
    [op |-> "none", raised |-> FALSE, window_title |-> <<>>, app_name |-> "",
     audio_bytes |-> NoAudio, visual_diff |-> 0, has_kb |-> FALSE,
     has_mouse |-> FALSE, prev_returned |-> FALSE, prev_volume |-> 0,
     samples |-> 0, result |-> NoFeatures]


(***************************************************************************)
(* The inputs of a run: constructor arguments and observation ticks.       *)
(***************************************************************************)
\* FogLayer(max_episode_duration, min_episode_duration), in clock units
Configs ==
    { [max_duration |-> 2, min_duration |-> 1],
      [max_duration |-> 0, min_duration |-> 0] }

Silence == [has_audio |-> FALSE, is_music_like |-> FALSE]
Music == [has_audio |-> TRUE, is_music_like |-> TRUE]
Still == [is_stable |-> TRUE, is_video_playing |-> FALSE]
Video == [is_stable |-> FALSE, is_video_playing |-> TRUE]

NoPayload == [image_bytes |-> None, audio_bytes |-> None]
Sample == [image_bytes |-> "png", audio_bytes |-> "pcm"]

MkTick(title, app, audio, visual, kb, mouse, payload) ==
    [window_title |-> title, app_name |-> app, audio |-> audio,
     visual |-> visual, has_kb |-> kb, has_mouse |-> mouse,
     image_bytes |-> payload.image_bytes, audio_bytes |-> payload.audio_bytes]

\* what the sampler may deliver in one tick
Ticks ==
    { MkTick(<<"Lo-fi Beats", "YouTube">>, "chrome.exe",
             Music, Video, FALSE, TRUE, Sample),
      MkTick(<<"notes">>, "chrome.exe", Silence, Video, TRUE, FALSE, NoPayload),
      MkTick(<<"notes">>, "chrome.exe", Silence, Still, FALSE, FALSE, NoPayload),
      MkTick(<<>>, "Code.exe", Silence, Still, FALSE, FALSE, NoPayload) }

(***************************************************************************)
(* The knowledge bases and database.lookup_app_in_kb.  Strings are taken   *)
(* as they are; what the code reads off their characters (lower(), the     *)
(* substring tests of "in" and of SQL LIKE, startswith("_")) is tabulated  *)
(* for the strings the model uses.                                         *)
(***************************************************************************)
\* str.lower(), for the strings the model uses
Lower(s) ==
    CASE s = "Code.exe" -> "code.exe"
      [] s = "Lo-fi Beats - YouTube" -> "lo-fi beats - youtube"
      [] s = "YouTube" -> "youtube"
      [] s = "main.py - myproj - Visual Studio Code" -> "main.py - myproj - visual studio code"
      [] OTHER -> s

\* the pairs <<hay, needle>> of those strings, lower-cased, with needle a
\* proper, non-empty substring of hay
SUBSTRINGS ==
    { <<"chrome.exe", "chrome">>,
      <<"chrome.exe|youtube", "chrome">>,
      <<"chrome.exe|youtube", "chrome.exe">>,
      <<"chrome.exe|youtube", "youtube">>,
      <<"code.exe", "code">>,
      <<"lo-fi beats - youtube", "youtube">>,
      <<"main.py - myproj - visual studio code", "code">> }

\* needle in hay, both lower-cased
Contains(hay, needle) ==
    needle = "" \/ hay = needle \/ <<hay, needle>> \in SUBSTRINGS

\* column LIKE '%needle%' of SQLite: no match on NULL, letter case ignored
Like(column, needle) == column # None /\ Contains(Lower(column), needle)

\* key.startswith("_")
StartsWithUnderscore(key) == key \in {"_template"}

\* the index of the first element of q that satisfies Test, 0 when none does
FirstIndex(q, Test(_)) ==
    IF \E i \in DOMAIN q : Test(q[i])
    THEN CHOOSE i \in DOMAIN q : Test(q[i]) /\ \A j \in 1..(i - 1) : ~Test(q[j])
    ELSE 0

\* None, for the Optional[dict] fields app_info and context_info
NoDict == [none |-> TRUE]

\* the result dict lookup_app_in_kb starts from
NotFound ==
    [found |-> FALSE, source |-> None, app_info |-> NoDict,
     context_info |-> NoDict, reaction |-> None]

\* a lookup that does not consult the user tier
UserMatchNever(kb, app_lower, title_lower) == 0

\* lines 936-953: the row of context_embeddings the query returns, 0 when it
\* returns none (ORDER BY occurrence_count DESC LIMIT 1; the tables of the
\* model have no two matching rows with the same count)
UserMatch(kb, app_lower, title_lower) ==
    LET hit(r) == Like(r.app_name, app_lower) \/ Like(r.window_title, title_lower)
        best(r) == hit(r) /\ \A i \in DOMAIN kb.user :
                               hit(kb.user[i]) =>
                                   kb.user[i].occurrence_count <= r.occurrence_count
    IN  FirstIndex(kb.user, best)

\* lines 958-967: the first learned reaction whose signature matches
LearnedReactionMatch(kb, app_lower, title_lower) ==
    LET hit(r) == /\ ~StartsWithUnderscore(r.key)
                  /\ \/ Contains(Lower(r.context_signature), app_lower)
                     \/ Contains(Lower(r.context_signature), title_lower)
    IN  FirstIndex(kb.learned_reactions, hit)

\* lines 969-976: the first context mapping of the app
ContextMappingMatch(kb, app_lower) ==
    LET hit(m) == ~StartsWithUnderscore(m.key) /\ app_lower = Lower(m.app_name)
    IN  FirstIndex(kb.context_mappings, hit)

\* lines 981-990: the first app of the core KB with a pattern that matches
CoreAppMatch(kb, app_lower) ==
    LET hit(a) == \E i \in DOMAIN a.patterns :
                      \/ Contains(app_lower, Lower(a.patterns[i]))
                      \/ Contains(Lower(a.patterns[i]), app_lower)
    IN  FirstIndex(kb.apps, hit)

\* lines 992-1001: the first context of the core KB whose pattern is in the title
CoreContextMatch(kb, title_lower) ==
    LET hit(c) == \E i \in DOMAIN c.title_contains :
                      Contains(title_lower, Lower(c.title_contains[i]))
    IN  FirstIndex(kb.contexts, hit)

\* a lookup that asks the core KB before the gemini KB
LookupAppInKbCoreFirst(kb, app_name, window_title) ==
    LET app_lower == IF Truthy(app_name) THEN Lower(app_name) ELSE ""
        title_lower == IF Truthy(window_title) THEN Lower(window_title) ELSE ""
        u == UserMatch(kb, app_lower, title_lower)
        r == LearnedReactionMatch(kb, app_lower, title_lower)
        a == CoreAppMatch(kb, app_lower)
    IN  IF u # 0
        THEN [NotFound EXCEPT !.found = TRUE, !.source = "user",
                              !.context_info = kb.user[u]]
        ELSE IF a # 0
        THEN [NotFound EXCEPT !.found = TRUE, !.source = "core",
                              !.app_info = kb.apps[a],
                              !.reaction = kb.apps[a].default_reaction]
        ELSE IF r # 0
        THEN [NotFound EXCEPT !.found = TRUE, !.source = "gemini",
                              !.reaction = kb.learned_reactions[r].reaction_text,
                              !.context_info = kb.learned_reactions[r]]
        ELSE NotFound

\* database.lookup_app_in_kb, when the database answers
LookupAppInKb(kb, app_name, window_title) ==
    LET app_lower == IF Truthy(app_name) THEN Lower(app_name) ELSE ""
        title_lower == IF Truthy(window_title) THEN Lower(window_title) ELSE ""
        u == UserMatch(kb, app_lower, title_lower)
        r == LearnedReactionMatch(kb, app_lower, title_lower)
        m == ContextMappingMatch(kb, app_lower)
        a == CoreAppMatch(kb, app_lower)
        c == CoreContextMatch(kb, title_lower)
    IN  IF u # 0
        THEN [NotFound EXCEPT !.found = TRUE, !.source = "user",
                              !.context_info = kb.user[u]]
        ELSE IF r # 0
        THEN [NotFound EXCEPT !.found = TRUE, !.source = "gemini",
                              !.reaction = kb.learned_reactions[r].reaction_text,
                              !.context_info = kb.learned_reactions[r]]
        ELSE IF m # 0
        THEN [NotFound EXCEPT !.found = TRUE, !.source = "gemini",
                              !.context_info = kb.context_mappings[m]]
        ELSE IF a # 0
        THEN [NotFound EXCEPT !.found = TRUE, !.source = "core",
                              !.app_info = kb.apps[a],
                              !.reaction = kb.apps[a].default_reaction]
        ELSE IF c # 0
        THEN [NotFound EXCEPT !.found = TRUE, !.source = "core",
                              !.context_info = kb.contexts[c],
                              !.reaction = kb.contexts[c].default_reaction]
        ELSE NotFound

\* database.get_behavior_policy: core_kb["behaviors"].get(name, {})
EmptyPolicy == "{}"
GetBehaviorPolicy(kb, behavior_name) ==
    IF behavior_name \in DOMAIN kb.behaviors
    THEN kb.behaviors[behavior_name] ELSE EmptyPolicy

(***************************************************************************)
(* KnowledgeGate.                                                          *)
(***************************************************************************)
\* KnowledgeGate._stats as __init__ and reset_stats set it
NewStats ==
    [total_checks |-> 0, known_hits |-> 0, unknown_queued |-> 0,
     unknown_urgent |-> 0, gemini_saved |-> 0]

\* GateResult(decision, ...): the fields not given keep their defaults
GateResult(decision, should_call_gemini, reason) ==
    [decision |-> decision, source |-> None, reaction |-> None,
     context_info |-> NoDict, behavior_policy |-> None,
     should_call_gemini |-> should_call_gemini, reason |-> reason]

\* the call did not return: the exception of lookup_app_in_kb left check
Raised == [decision |-> "raised"]

\* Episode.observation_count
ObservationCount(ep) == Len(ep.observations)

\* an _assess_urgency that forgets the first-observation rule
AssessUrgencyIgnoresEpisode(features, episode) ==
    \/ features.is_focused
    \/ features.activity_type \in {"coding", "writing"}

\* KnowledgeGate._assess_urgency; the Optional[Episode] is <<>> for None and
\* <<ep>> for the Episode ep
AssessUrgency(features, episode) ==
    IF features.is_focused THEN TRUE
    ELSE IF episode # <<>> /\ ObservationCount(episode[1]) <= 1 THEN TRUE
    ELSE features.activity_type \in {"coding", "writing"}

\* a forced check that queues, as the docstring of force_gemini has it
ForcedResultQueues(st) ==
    [stats |-> st, looked_up |-> FALSE, lookup_raised |-> FALSE,
     lookup |-> NotFound,
     result |-> GateResult("UNKNOWN_QUEUE", FALSE, "Forced Gemini call requested")]

\* check lines 80-85: the forced call; st is _stats after line 77
ForcedResult(st) ==
    [stats |-> st, looked_up |-> FALSE, lookup_raised |-> FALSE,
     lookup |-> NotFound,
     result |-> GateResult("UNKNOWN_URGENT", TRUE, "Forced Gemini call requested")]

\* a result for a known context that always takes the template
KnownResultAlwaysTemplate(kb, kb_result) ==
    [GateResult("KNOWN_USE_TEMPLATE", FALSE,
                <<"Found in", kb_result.source, "KB with reaction">>)
        EXCEPT !.source = kb_result.source, !.reaction = kb_result.reaction]

\* check lines 94-127: the result for a context the lookup found
KnownResult(kb, kb_result) ==
    LET behavior_name ==
            IF kb_result.app_info # NoDict THEN kb_result.app_info.behavior
            ELSE IF kb_result.context_info # NoDict
            THEN kb_result.context_info.behavior
            ELSE None
        behavior_policy ==
            IF Truthy(behavior_name) THEN GetBehaviorPolicy(kb, behavior_name)
            ELSE None
        reaction == kb_result.reaction
        context_info ==
            IF kb_result.context_info # NoDict THEN kb_result.context_info
            ELSE kb_result.app_info
    IN  IF Truthy(reaction)
        THEN [GateResult("KNOWN_USE_TEMPLATE", FALSE,
                         <<"Found in", kb_result.source, "KB with reaction">>)
                 EXCEPT !.source = kb_result.source, !.reaction = reaction,
                        !.context_info = context_info,
                        !.behavior_policy = behavior_policy]
        ELSE [GateResult("KNOWN_SKIP", FALSE,
                         <<"Found in", kb_result.source, "KB, no reaction needed">>)
                 EXCEPT !.source = kb_result.source,
                        !.context_info = context_info,
                        !.behavior_policy = behavior_policy]

\* an unknown context that is queued and sent to Gemini as well
UnknownResultQueuedAndSent(st, features, episode) ==
    [stats |-> [st EXCEPT !.unknown_queued = @ + 1],
     result |-> GateResult("UNKNOWN_QUEUE", TRUE,
                           "Unknown context, queued for batch processing")]

\* check lines 129-147: the result for a context no knowledge base holds
UnknownResult(st, features, episode) ==
    IF AssessUrgency(features, episode)
    THEN [stats |-> [st EXCEPT !.unknown_urgent = @ + 1],
          result |-> GateResult("UNKNOWN_URGENT", TRUE,
                                "Unknown context with high significance")]
    ELSE [stats |-> [st EXCEPT !.unknown_queued = @ + 1],
          result |-> GateResult("UNKNOWN_QUEUE", FALSE,
                                "Unknown context, queued for batch processing")]

\* KnowledgeGate.check: _stats after the call, whether lookup_app_in_kb was
\* called, whether it raised, what it returned, and the result of the call.  db_fails: the
\* database raises in lookup_app_in_kb (sqlite3.Error in lines 937-946); check
\* has no handler, so the exception leaves check after line 77 has counted
Check(st, kb, db_fails, window_title, app_name, features, episode, force_gemini) ==
    LET counted == [st EXCEPT !.total_checks = @ + 1]
    IN  IF force_gemini THEN ForcedResult(counted)
        ELSE IF db_fails
        THEN [stats |-> counted, looked_up |-> TRUE, lookup_raised |-> TRUE,
              lookup |-> NotFound, result |-> Raised]
        ELSE LET kb_result == LookupAppInKb(kb, app_name, window_title)
             IN  IF kb_result.found
                 THEN [stats |-> [counted EXCEPT !.known_hits = @ + 1,
                                                 !.gemini_saved = @ + 1],
                       looked_up |-> TRUE, lookup_raised |-> FALSE,
                       lookup |-> kb_result,
                       result |-> KnownResult(kb, kb_result)]
                 ELSE LET u == UnknownResult(counted, features, episode)
                      IN  [stats |-> u.stats, looked_up |-> TRUE,
                           lookup_raised |-> FALSE, lookup |-> kb_result,
                           result |-> u.result]

\* KnowledgeGate.get_stats: the counters and hit_rate_percent, the latter in
\* tenths of a percent (round(x, 1); no total of the model gives a tie)
GetStatsResult(st) ==
    [counters |-> st,
     hit_rate_tenths |->
         IF st.total_checks > 0
         THEN (2 * 1000 * st.known_hits + st.total_checks) \div (2 * st.total_checks)
         ELSE 0]

\* no check call yet, by outcome
NewGateLog ==
    [calls |-> 0, template |-> 0, skip |-> 0, queue |-> 0, urgent |-> 0,
     raised |-> 0]

\* the outcome of a check call, as the history counts it
Outcome(result) ==
    CASE result.decision = "KNOWN_USE_TEMPLATE" -> "template"
      [] result.decision = "KNOWN_SKIP" -> "skip"
      [] result.decision = "UNKNOWN_QUEUE" -> "queue"
      [] result.decision = "UNKNOWN_URGENT" -> "urgent"
      [] OTHER -> "raised"

\* the knowledge bases with nothing in them
NoKb ==
    [user |-> <<>>, learned_reactions |-> <<>>, context_mappings |-> <<>>,
     apps |-> <<>>, contexts |-> <<>>, behaviors |-> <<>>]

\* the history's entry before the first call of lookup_app_in_kb
NoLookup ==
    [op |-> "none", kb |-> NoKb, app_name |-> "", window_title |-> "",
     raised |-> FALSE, result |-> NotFound]

\* the history's entry before the first call of the gate
NoGateCall ==
    [op |-> "none", before |-> NewStats, forced |-> FALSE, looked_up |-> FALSE,
     lookup_raised |-> FALSE, lookup |-> NotFound,
     is_focused |-> FALSE, activity_type |-> None, has_episode |-> FALSE,
     episode_count |-> 0, result |-> [decision |-> "none"],
     returned |-> GetStatsResult(NewStats)]

\* no thread is inside check: pc is the line the thread stands before;
\* before is _stats at entry, call what Check says the call does from there
CheckIdle ==
    [pc |-> "idle", before |-> NewStats,
     call |-> [stats |-> NewStats, found |-> FALSE, forced |-> FALSE,
               decision |-> "none"]]

\* no thread is inside get_stats: total and hit_rate_tenths are its locals,
\* returned the dict of its last return, during the check_thread it saw when
\* it copied _stats (line 198)
StatsIdle ==
    [pc |-> "idle", total |-> 0, hit_rate_tenths |-> 0,
     returned |-> GetStatsResult(NewStats), during |-> CheckIdle]

\* get_stats lines 191-195: hit_rate from the total read at line 191 and the
\* known_hits read at line 193, rounded as line 199 does
HitRateTenths(total, known_hits) ==
    IF total > 0 THEN (2 * 1000 * known_hits + total) \div (2 * total) ELSE 0

(***************************************************************************)
(* State.                                                                  *)
(***************************************************************************)
VARIABLES
    clock,              \* what time.time() returns now
    max_duration,       \* FogLayer.max_duration
    min_duration,       \* FogLayer.min_duration
    episodes,           \* the Episode objects created so far, in creation order
    current_episode,    \* FogLayer.current_episode: index into episodes, or NoEpisode
    episode_history,    \* FogLayer.episode_history: deque of episode indices
    pending_episodes,   \* FogLayer.pending_episodes: list of episode indices
    episode_counter,    \* FogLayer._episode_counter
    episodes_copy,      \* get_pending_episodes: its local list "episodes"
    consumer_pc,        \* get_pending_episodes: where its caller stands
    delivered,          \* history: the lists get_pending_episodes returned, concatenated
    calls,              \* history: number of add_observation calls made
    last,               \* history: what the last call did
    last_arrival,       \* history: clock reading at entry of the last add_observation
    max_gap,            \* history: longest time between two consecutive add_observation calls
    stats,              \* KnowledgeGate._stats
    gate_log,           \* history: the check calls since the counters were last zero, by outcome
    gate_last,          \* history: what the last call of the gate did
    check_thread,       \* the thread inside KnowledgeGate.check: its position and locals
    stats_thread,       \* the thread inside KnowledgeGate.get_stats: its position and locals
    lookup_last,        \* history: what the last call of lookup_app_in_kb did
    last_volume,        \* AudioAnalyzer.last_volume
    change_history,     \* VisualAnalyzer.change_history
    sem_calls,          \* history: number of extract_features calls made
    sem_last,           \* history: what the last call of extract_features did
    given,              \* history: the image and audio bytes given with each add_observation call
    foreground,         \* the window that has the focus, as the OS reports it
    running,            \* AppTracker._running
    thread,             \* AppTracker._thread: where the poll thread stands
    current_app,        \* AppTracker._current_app
    current_title,      \* AppTracker._current_title
    focus_start,        \* AppTracker._focus_start
    stop_pc,            \* the thread inside AppTracker.stop: its position
    app_activity        \* the rows add_app_activity inserted, with the period each covers

fogVars ==
    <<max_duration, min_duration, episodes, current_episode, episode_history,
      pending_episodes, episode_counter>>
consumerVars == <<episodes_copy, consumer_pc>>
histVars == <<delivered, calls, last, last_arrival, max_gap, given>>
gateThreadVars == <<check_thread, stats_thread>>
gateVars == <<stats, gate_log, gate_last, gateThreadVars>>
lookupVars == <<lookup_last>>
semVars == <<last_volume, change_history, sem_calls, sem_last>>
trackerVars ==
    <<foreground, running, thread, current_app, current_title, focus_start,
      stop_pc, app_activity>>
vars ==
    <<clock, fogVars, consumerVars, histVars, gateVars, lookupVars, semVars,
      trackerVars>>

\* deque(maxlen=50)
HISTORY_MAXLEN == 50

\* the FogLayer object as one value
Fog ==
    [episodes |-> episodes, current_episode |-> current_episode,
     episode_history |-> episode_history, pending_episodes |-> pending_episodes,
     episode_counter |-> episode_counter]

\* a deque that grows without limit
DequeAppendUnbounded(d, x) == Append(d, x)

\* deque.append on a deque with maxlen
DequeAppend(d, x) ==
    IF Len(d) >= HISTORY_MAXLEN THEN Append(Tail(d), x) ELSE Append(d, x)

(***************************************************************************)
(* FogLayer, as functions from the object (f) to the object after the call *)
(***************************************************************************)
\* EpisodeObservation(...) of add_observation; seq tells the calls apart
Observation(seq, now, tick, features) ==
    [seq |-> seq, timestamp |-> now, window_title |-> tick.window_title,
     app_name |-> tick.app_name, features |-> features,
     has_image |-> tick.image_bytes # None,
     has_audio |-> tick.audio_bytes # None]

\* FogLayer._start_episode; t_start is its clock reading (the id is built from
\* the counter and the same reading)
StartEpisode(f, first_obs, features, t_start) ==
    LET n == f.episode_counter + 1
        ep == [id |-> <<n, t_start>>,
               start_time |-> t_start,
               end_time |-> NoTime,
               state |-> "ACTIVE",
               primary_app |-> first_obs.app_name,
               primary_activity |-> features.activity_type,
               primary_platform |-> features.title.platform,
               observations |-> <<>>,
               total_duration |-> 0,
               keyboard_active |-> FALSE,
               mouse_active |-> FALSE,
               is_passive |-> FALSE,
               is_focused |-> FALSE,
               selected_image_bytes |-> None,
               selected_audio_bytes |-> None]
    IN  [f EXCEPT !.episode_counter = n,
                  !.episodes = Append(f.episodes, ep),
                  !.current_episode = Len(f.episodes) + 1]

\* _close_episode that marks the episode PROCESSED at once
CloseEpisodeSkipsClosed(f, t_end) ==
    LET e == f.current_episode
    IN  [f EXCEPT !.episodes[e].end_time = t_end,
                  !.episodes[e].state = "PROCESSED",
                  !.episodes[e].total_duration = t_end - f.episodes[e].start_time,
                  !.episode_history = DequeAppend(f.episode_history, e),
                  !.pending_episodes = Append(f.pending_episodes, e),
                  !.current_episode = NoEpisode]

\* _close_episode that forgets episode.state = CLOSED
CloseEpisodeLeavesActive(f, t_end) ==
    LET e == f.current_episode
    IN  [f EXCEPT !.episodes[e].end_time = t_end,
                  !.episodes[e].total_duration = t_end - f.episodes[e].start_time,
                  !.episode_history = DequeAppend(f.episode_history, e),
                  !.pending_episodes = Append(f.pending_episodes, e),
                  !.current_episode = NoEpisode]

\* _close_episode that leaves total_duration at its default
CloseEpisodeWithoutDuration(f, t_end) ==
    LET e == f.current_episode
    IN  [f EXCEPT !.episodes[e].end_time = t_end,
                  !.episodes[e].state = "CLOSED",
                  !.episode_history = DequeAppend(f.episode_history, e),
                  !.pending_episodes = Append(f.pending_episodes, e),
                  !.current_episode = NoEpisode]

\* FogLayer._close_episode; t_end is its clock reading
CloseEpisode(f, t_end) ==
    LET e == f.current_episode
    IN  [f EXCEPT !.episodes[e].end_time = t_end,
                  !.episodes[e].state = "CLOSED",
                  !.episodes[e].total_duration = t_end - f.episodes[e].start_time,
                  !.episode_history = DequeAppend(f.episode_history, e),
                  !.pending_episodes = Append(f.pending_episodes, e),
                  !.current_episode = NoEpisode]

\* the four grounds of FogLayer._is_significant_change, in the code's order
AppChanged(ep, features) ==
    Truthy(features.title.app_name) /\ features.title.app_name # ep.primary_app
ActivityChanged(ep, features) ==
    features.activity_type # ep.primary_activity
PlatformChanged(ep, features) ==
    Truthy(features.title.platform) /\ features.title.platform # ep.primary_platform
\* the passive ground applied in both directions
PassiveEitherWay(ep, features) ==
    ep.is_passive # features.is_passive
PassiveToActive(ep, features) ==
    ep.is_passive /\ ~features.is_passive

\* FogLayer._is_significant_change
IsSignificantChange(f, features) ==
    IF f.current_episode = NoEpisode THEN TRUE
    ELSE LET ep == f.episodes[f.current_episode]
         IN  \/ AppChanged(ep, features)
             \/ ActivityChanged(ep, features)
             \/ PlatformChanged(ep, features)
             \/ PassiveToActive(ep, features)

\* the check of lines 145-160 without the max_duration branch
NeedsNewEpisodeIgnoresMax(f, now, features, maxd, mind) ==
    IF f.current_episode = NoEpisode THEN TRUE
    ELSE LET episode_duration == now - f.episodes[f.current_episode].start_time
         IN  IsSignificantChange(f, features) /\ episode_duration > mind

\* the check of lines 145-160 without the min_duration condition
NeedsNewEpisodeIgnoresMin(f, now, features, maxd, mind) ==
    IF f.current_episode = NoEpisode THEN TRUE
    ELSE LET episode_duration == now - f.episodes[f.current_episode].start_time
         IN  IF episode_duration > maxd THEN TRUE
             ELSE IsSignificantChange(f, features)

\* add_observation lines 145-160: does the call need a new episode
NeedsNewEpisode(f, now, features, maxd, mind) ==
    IF f.current_episode = NoEpisode THEN TRUE
    ELSE LET episode_duration == now - f.episodes[f.current_episode].start_time
         IN  IF episode_duration > maxd THEN TRUE
             ELSE IsSignificantChange(f, features) /\ episode_duration > mind

\* an append that is skipped for the first observation of an episode
AppendObservationAfterFirst(f, obs) ==
    IF f.episodes[f.current_episode].observations = <<>> THEN f
    ELSE [f EXCEPT !.episodes[f.current_episode].observations = Append(@, obs)]

\* self.current_episode.observations.append(obs)
AppendObservation(f, obs) ==
    [f EXCEPT !.episodes[f.current_episode].observations = Append(@, obs)]

\* aggregates that follow the latest observation
UpdateEpisodeAggregatesLatest(f, features) ==
    LET e == f.current_episode
    IN  [f EXCEPT !.episodes[e].is_passive = features.is_passive,
                  !.episodes[e].is_focused = features.is_focused,
                  !.episodes[e].primary_activity =
                      IF Truthy(features.activity_type)
                         /\ features.activity_type # "general"
                      THEN features.activity_type ELSE @]

\* FogLayer._update_episode_aggregates
UpdateEpisodeAggregates(f, features) ==
    LET e == f.current_episode
    IN  [f EXCEPT !.episodes[e].is_passive = (@ \/ features.is_passive),
                  !.episodes[e].is_focused = (@ \/ features.is_focused),
                  !.episodes[e].primary_activity =
                      IF Truthy(features.activity_type)
                         /\ features.activity_type # "general"
                      THEN features.activity_type ELSE @]

\* add_observation lines 176-180: keep the first image and audio sample
StoreSamples(f, payload) ==
    LET e == f.current_episode
    IN  [f EXCEPT !.episodes[e].selected_image_bytes =
                      IF Truthy(payload.image_bytes) /\ @ = None
                      THEN payload.image_bytes ELSE @,
                  !.episodes[e].selected_audio_bytes =
                      IF Truthy(payload.audio_bytes) /\ @ = None
                      THEN payload.audio_bytes ELSE @]

\* add_observation that appends the observation before it closes the episode
AddObservationAppendsFirst(f, obs, features, payload, maxd, mind, now, t_end, t_start) ==
    LET closing == NeedsNewEpisode(f, now, features, maxd, mind)
                   /\ f.current_episode # NoEpisode
        f0 == IF closing THEN AppendObservation(f, obs) ELSE f
        f1 == IF closing THEN CloseEpisode(f0, t_end) ELSE f0
        f2 == IF f1.current_episode = NoEpisode
              THEN StartEpisode(f1, obs, features, t_start) ELSE f1
        f3 == IF closing THEN f2 ELSE AppendObservation(f2, obs)
        f4 == UpdateEpisodeAggregates(f3, features)
    IN  StoreSamples(f4, payload)

\* FogLayer.add_observation: the object after the call.  now, t_end and t_start
\* are the clock readings of the call, in the order they are taken
AddObservationResult(f, obs, features, payload, maxd, mind, now, t_end, t_start) ==
    LET closing == NeedsNewEpisode(f, now, features, maxd, mind)
                   /\ f.current_episode # NoEpisode
        f1 == IF closing THEN CloseEpisode(f, t_end) ELSE f
        f2 == IF f1.current_episode = NoEpisode
              THEN StartEpisode(f1, obs, features, t_start) ELSE f1
        f3 == AppendObservation(f2, obs)
        f4 == UpdateEpisodeAggregates(f3, features)
    IN  StoreSamples(f4, payload)

\* an add_observation that returns the episode it found active
ClosedEpisodeFoundActive(f, now, features, maxd, mind) ==
    f.current_episode

\* FogLayer.add_observation: what the call returns (closed_episode, lines 133,
\* 163-164 and 182)
ClosedEpisode(f, now, features, maxd, mind) ==
    IF NeedsNewEpisode(f, now, features, maxd, mind)
       /\ f.current_episode # NoEpisode
    THEN f.current_episode
    ELSE NoEpisode

SetFog(f) ==
    /\ episodes' = f.episodes
    /\ current_episode' = f.current_episode
    /\ episode_history' = f.episode_history
    /\ pending_episodes' = f.pending_episodes
    /\ episode_counter' = f.episode_counter

\* what the history records of the episode that was current when a call began
Before(f) ==
    IF f.current_episode = NoEpisode
    THEN [primary_app |-> None, primary_activity |-> None,
          primary_platform |-> None, is_passive |-> FALSE, start_time |-> NoTime]
    ELSE LET ep == f.episodes[f.current_episode]
         IN  [primary_app |-> ep.primary_app, primary_activity |-> ep.primary_activity,
              primary_platform |-> ep.primary_platform, is_passive |-> ep.is_passive,
              start_time |-> ep.start_time]

\* no observation: the history's entry for a call that is not add_observation
NoObs ==
    [seq |-> 0, timestamp |-> NoTime, window_title |-> <<>>, app_name |-> "",
     features |-> ExtractFeatures(<<>>, "", Silence, Still, FALSE, FALSE),
     has_image |-> FALSE, has_audio |-> FALSE]

NoCall ==
    [op |-> "none", had |-> NoEpisode, returned |-> NoEpisode, drained |-> <<>>,
     significant |-> FALSE, before |-> Before([current_episode |-> NoEpisode]),
     obs |-> NoObs]

(***************************************************************************)
(* Actions.                                                                *)
(***************************************************************************)
\* SemanticLayer(): AudioAnalyzer.__init__ and VisualAnalyzer.__init__
NewSemanticLayer ==
    /\ last_volume = 0
    /\ change_history = <<>>
    /\ sem_calls = 0
    /\ sem_last = NoSemCall

\* (None, None) of _get_active_window_info: no window has the focus
NoWindow == [app_name |-> None, title |-> None]

\* the windows that may have the focus
Windows ==
    { NoWindow,
      [app_name |-> "chrome.exe", title |-> "notes"],
      [app_name |-> "Code.exe", title |-> "main.py"],
      [app_name |-> "LockApp.exe", title |-> "Windows Default Lock Screen"] }

\* learning_config: DEFAULT_CONFIG["min_focus_seconds"] and, of
\* DEFAULT_CONFIG["excluded_apps"], the app the model has a window of
MIN_FOCUS_SECONDS == 2
EXCLUDED_APPS == {"LockApp.exe"}

\* learning_config.is_app_excluded
IsAppExcluded(app_name) == app_name \in EXCLUDED_APPS

\* AppTracker._log_focus_end: the rows of app_activity after the call, given
\* _current_app, _current_title, _focus_start and the clock's reading.  A row
\* is kept with the period it covers, from _focus_start to the reading; the
\* clock counts seconds, so int() changes nothing, and a _focus_start that was
\* set is a time after the epoch and counts as true
LogFocusEnd(rows, app, title, start, now) ==
    IF Truthy(app) /\ start # NoTime
       /\ now - start >= MIN_FOCUS_SECONDS /\ ~IsAppExcluded(app)
    THEN Append(rows, [app_name |-> app, window_title |-> title,
                       duration_seconds |-> now - start,
                       start |-> start, end |-> now])
    ELSE rows

\* no poll thread: pc is where the thread stands, app_name and title are the
\* locals of _poll_loop
NoThread == [pc |-> "none", app_name |-> None, title |-> None]

\* AppTracker(): __init__, on a desktop where no window has the focus yet
NewAppTracker ==
    /\ foreground = NoWindow
    /\ running = FALSE
    /\ thread = NoThread
    /\ current_app = None
    /\ current_title = None
    /\ focus_start = NoTime
    /\ stop_pc = "idle"
    /\ app_activity = <<>>

\* the FogLayer, the KnowledgeGate and the histories of both after construction
PipelineInit ==
    /\ clock = 0
    /\ \E c \in Configs :
          /\ max_duration = c.max_duration
          /\ min_duration = c.min_duration
    /\ episodes = <<>>
    /\ current_episode = NoEpisode
    /\ episode_history = <<>>
    /\ pending_episodes = <<>>
    /\ episode_counter = 0
    /\ episodes_copy = <<>>
    /\ consumer_pc = "idle"
    /\ delivered = <<>>
    /\ calls = 0
    /\ last = NoCall
    /\ last_arrival = NoTime
    /\ max_gap = 0
    /\ given = <<>>
    /\ stats = NewStats
    /\ gate_log = NewGateLog
    /\ gate_last = NoGateCall
    /\ check_thread = CheckIdle
    /\ stats_thread = StatsIdle
    /\ lookup_last = NoLookup

Init ==
    /\ PipelineInit
    /\ NewSemanticLayer
    /\ NewAppTracker

\* time passes between two calls, up to max_time
TickTo(max_time) ==
    /\ clock < max_time
    /\ clock' = clock + 1
    /\ UNCHANGED <<trackerVars, lookupVars, semVars, fogVars, consumerVars, histVars, gateVars>>

Tick == TickTo(MaxTime)

\* FogLayer.add_observation(window_title, app_name, features, image_bytes, audio_bytes)
\* with features = semantic_layer.extract_features(...) of the same tick.
\* The call reads the clock at entry (now), in _close_episode (d1 later) and in
\* _start_episode (d2 later still); the sampler delivers one tick per clock unit
\* at most.  ticks is the set of ticks the sampler may deliver, max_calls and
\* max_time end the run.
AddObservationOf(ticks, max_calls, max_time) ==
    \E tick \in ticks, d1, d2 \in 0..MaxDrift :
        /\ calls < max_calls
        /\ last_arrival < clock
        /\ ~ParseRaises(tick.window_title, tick.app_name)
        /\ d1 + d2 <= MaxDrift
        /\ clock + d1 + d2 <= max_time
        /\ LET now == clock
               features == ExtractFeatures(tick.window_title, tick.app_name,
                               tick.audio, tick.visual, tick.has_kb, tick.has_mouse)
               obs == Observation(calls + 1, now, tick, features)
               closing == NeedsNewEpisode(Fog, now, features, max_duration, min_duration)
                          /\ current_episode # NoEpisode
               starting == closing \/ current_episode = NoEpisode
               t_end == now + d1
               t_start == t_end + d2
           IN  /\ ~closing => d1 = 0
               /\ ~starting => d2 = 0
               /\ SetFog(AddObservationResult(Fog, obs, features, tick,
                             max_duration, min_duration, now, t_end, t_start))
               /\ clock' = t_start
               /\ calls' = calls + 1
               /\ last' = [op |-> "add", had |-> current_episode,
                           returned |-> ClosedEpisode(Fog, now, features,
                                            max_duration, min_duration),
                           drained |-> <<>>,
                           significant |-> IsSignificantChange(Fog, features),
                           before |-> Before(Fog),
                           obs |-> obs]
               /\ max_gap' = IF last_arrival # NoTime /\ now - last_arrival > max_gap
                             THEN now - last_arrival ELSE max_gap
               /\ last_arrival' = now
               /\ given' = Append(given, [image_bytes |-> tick.image_bytes,
                                           audio_bytes |-> tick.audio_bytes])
        /\ UNCHANGED <<trackerVars, lookupVars, semVars, max_duration, min_duration, consumerVars, delivered, gateVars>>

AddObservation == AddObservationOf(Ticks, MaxCalls, MaxTime)

\* a force_close_current that spares an episode not older than min_duration
ForceCloseCurrentKeepsYoung ==
    /\ IF current_episode # NoEpisode
          /\ clock - episodes[current_episode].start_time > min_duration
       THEN SetFog(CloseEpisode(Fog, clock))
       ELSE UNCHANGED <<episodes, current_episode, episode_history,
                        pending_episodes, episode_counter>>
    /\ last' = [NoCall EXCEPT !.op = "force", !.had = current_episode,
                              !.returned = current_episode,
                              !.before = Before(Fog)]
    /\ UNCHANGED <<trackerVars, lookupVars, semVars, clock, max_duration, min_duration, consumerVars, delivered,
                   calls, last_arrival, max_gap, given, gateVars>>

\* FogLayer.force_close_current()
ForceCloseCurrent ==
    /\ IF current_episode # NoEpisode
       THEN SetFog(CloseEpisode(Fog, clock))
       ELSE UNCHANGED <<episodes, current_episode, episode_history,
                        pending_episodes, episode_counter>>
    /\ last' = [NoCall EXCEPT !.op = "force", !.had = current_episode,
                              !.returned = current_episode,
                              !.before = Before(Fog)]
    /\ UNCHANGED <<trackerVars, lookupVars, semVars, clock, max_duration, min_duration, consumerVars, delivered,
                   calls, last_arrival, max_gap, given, gateVars>>

\* get_pending_episodes, line 192: episodes = self.pending_episodes.copy()
CopyPending(f) == f.pending_episodes

\* a drain that returns the copy and leaves the queue as it is
ClearPendingKeepsQueue(f) == f

\* get_pending_episodes, line 193: self.pending_episodes.clear()
ClearPending(f) == [f EXCEPT !.pending_episodes = <<>>]

\* FogLayer.get_pending_episodes() called by the only thread there is: the
\* copy, the clear and the return happen with no other call in between
GetPendingEpisodes ==
    /\ consumer_pc = "idle"
    /\ LET returned == CopyPending(Fog)
       IN  /\ SetFog(ClearPending(Fog))
           /\ delivered' = delivered \o returned
           /\ last' = [NoCall EXCEPT !.op = "drain", !.drained = returned]
    /\ UNCHANGED <<trackerVars, lookupVars, semVars, clock, max_duration, min_duration, consumerVars,
                   calls, last_arrival, max_gap, given, gateVars>>

\* get_pending_episodes called from a consumer thread while a producer thread
\* calls add_observation and force_close_current: the code takes no lock, so
\* the producer may run between line 192 and line 193.  Each of the two lines
\* is one list operation; the producer's calls touch the queue in one such
\* operation (the append in _close_episode), so they are taken whole.
GetPendingCopy ==
    /\ consumer_pc = "idle"
    /\ episodes_copy' = CopyPending(Fog)
    /\ consumer_pc' = "copied"
    /\ UNCHANGED <<trackerVars, lookupVars, semVars, clock, fogVars, histVars, gateVars>>

GetPendingClear ==
    /\ consumer_pc = "copied"
    /\ SetFog(ClearPending(Fog))
    /\ delivered' = delivered \o episodes_copy
    /\ last' = [NoCall EXCEPT !.op = "drain", !.drained = episodes_copy]
    /\ episodes_copy' = <<>>
    /\ consumer_pc' = "idle"
    /\ UNCHANGED <<trackerVars, lookupVars, semVars, clock, max_duration, min_duration, calls, last_arrival, max_gap, given,
                   gateVars>>

Next ==
    \/ Tick
    \/ AddObservation
    \/ ForceCloseCurrent
    \/ GetPendingEpisodes

Spec == Init /\ [][Next]_vars

(***************************************************************************)
(* A FogLayer that has been in use: it has seen Warmup rounds of           *)
(* add_observation, force_close_current and get_pending_episodes, one per  *)
(* clock unit, and then runs like any other.                               *)
(***************************************************************************)
\* the tick of the earlier rounds
WarmTick == MkTick(<<"notes">>, "chrome.exe", Silence, Still, FALSE, FALSE, NoPayload)

\* a FogLayer as __init__ leaves it
NewFog ==
    [episodes |-> <<>>, current_episode |-> NoEpisode, episode_history |-> <<>>,
     pending_episodes |-> <<>>, episode_counter |-> 0]

\* the episode round i leaves behind; the round runs at clock i - 1 on a
\* FogLayer that has no current episode and has counted i - 1 episodes
RoundEpisode(i, maxd, mind) ==
    LET f == [NewFog EXCEPT !.episode_counter = i - 1]
        now == i - 1
        features == ExtractFeatures(WarmTick.window_title, WarmTick.app_name,
                        WarmTick.audio, WarmTick.visual,
                        WarmTick.has_kb, WarmTick.has_mouse)
        obs == Observation(i, now, WarmTick, features)
        added == AddObservationResult(f, obs, features, WarmTick,
                                      maxd, mind, now, now, now)
    IN  ClearPending(CloseEpisode(added, now)).episodes[1]

\* the deque d after the appends of rounds lo..hi, one append per round (the
\* range is split in halves to keep the evaluation shallow)
RECURSIVE AppendRounds(_, _, _)
AppendRounds(d, lo, hi) ==
    IF lo > hi THEN d
    ELSE IF lo = hi THEN DequeAppend(d, lo)
    ELSE LET mid == (lo + hi) \div 2
             left == AppendRounds(d, lo, mid)
         IN  IF Len(left) >= 0 THEN AppendRounds(left, mid + 1, hi) ELSE left

\* episode_history after k rounds
WarmHistory(k) == AppendRounds(<<>>, 1, k)

\* the FogLayer after k rounds
WarmFog(k, maxd, mind) ==
    [episodes |-> [i \in 1..k |-> RoundEpisode(i, maxd, mind)],
     current_episode |-> NoEpisode,
     episode_history |-> WarmHistory(k),
     pending_episodes |-> <<>>,
     episode_counter |-> k]

HistInit ==
    /\ clock = Warmup
    /\ \E c \in Configs :
          /\ max_duration = c.max_duration
          /\ min_duration = c.min_duration
          /\ LET f == WarmFog(Warmup, c.max_duration, c.min_duration)
             IN  /\ episodes = f.episodes
                 /\ current_episode = f.current_episode
                 /\ episode_history = f.episode_history
                 /\ pending_episodes = f.pending_episodes
                 /\ episode_counter = f.episode_counter
    /\ episodes_copy = <<>>
    /\ consumer_pc = "idle"
    /\ delivered = [e \in 1..Warmup |-> e]
    /\ calls = Warmup
    /\ last = [NoCall EXCEPT !.op = "drain", !.drained = <<Warmup>>]
    /\ last_arrival = Warmup - 1
    /\ max_gap = IF Warmup >= 2 THEN 1 ELSE 0
    /\ stats = NewStats
    /\ gate_log = NewGateLog
    /\ gate_last = NoGateCall
    /\ check_thread = CheckIdle
    /\ stats_thread = StatsIdle
    /\ lookup_last = NoLookup
    /\ given = [i \in 1..Warmup |-> NoPayload]
    /\ NewSemanticLayer
    /\ NewAppTracker

\* the ticks without video
QuietTicks == {t \in Ticks : ~t.visual.is_video_playing}

ConcNext ==
    \/ Tick
    \/ AddObservationOf(QuietTicks, MaxCalls, MaxTime)
    \/ ForceCloseCurrent
    \/ GetPendingCopy
    \/ GetPendingClear

HistNext ==
    \/ TickTo(Warmup + MaxTime)
    \/ AddObservationOf(QuietTicks, Warmup + MaxCalls, Warmup + MaxTime)
    \/ ForceCloseCurrent
    \/ GetPendingEpisodes

\* a single caller on a FogLayer that has been in use
HistSpec == HistInit /\ [][HistNext]_vars

\* a producer thread and a consumer thread on one FogLayer
ConcSpec == Init /\ [][ConcNext]_vars

\* ticks of one editor window: typed into in silence, left alone with music
\* playing, and left alone in silence
EditorTicks ==
    { MkTick(<<"main.py", "myproj", "Visual Studio Code">>, "Code.exe",
             Silence, Still, TRUE, FALSE, NoPayload),
      MkTick(<<"main.py", "myproj", "Visual Studio Code">>, "Code.exe",
             Music, Still, FALSE, FALSE, NoPayload),
      MkTick(<<"main.py", "myproj", "Visual Studio Code">>, "Code.exe",
             Silence, Still, FALSE, FALSE, NoPayload) }

EditorNext ==
    \/ Tick
    \/ AddObservationOf(EditorTicks, MaxCalls, MaxTime)
    \/ ForceCloseCurrent

\* a single caller on a FogLayer that watches one editor window
EditorSpec == Init /\ [][EditorNext]_vars

\* ticks of one browser window that differ in the bytes captured with them:
\* nothing, a first image and audio sample, a second image alone, and an
\* empty capture b"" with a second audio sample
SampleTicks ==
    { MkTick(<<"notes">>, "chrome.exe", Silence, Still, FALSE, FALSE, NoPayload),
      MkTick(<<"notes">>, "chrome.exe", Silence, Still, FALSE, FALSE,
             [image_bytes |-> "png1", audio_bytes |-> "pcm1"]),
      MkTick(<<"notes">>, "chrome.exe", Silence, Still, FALSE, FALSE,
             [image_bytes |-> "png2", audio_bytes |-> None]),
      MkTick(<<"notes">>, "chrome.exe", Silence, Still, FALSE, FALSE,
             [image_bytes |-> "", audio_bytes |-> "pcm2"]) }

SampleNext ==
    \/ Tick
    \/ AddObservationOf(SampleTicks, MaxCalls, MaxTime)
    \/ ForceCloseCurrent

\* a single caller on a FogLayer, with captures of the screen and the sound
SampleSpec == Init /\ [][SampleNext]_vars

\* ticks of a browser: a video, a page with music playing, a page in silence,
\* and the video again as a sampler delivers it that has no process name
BrowserTicks ==
    { MkTick(<<"Lo-fi Beats", "YouTube">>, "chrome.exe",
             Music, Video, FALSE, TRUE, NoPayload),
      MkTick(<<"notes">>, "chrome.exe", Music, Still, FALSE, FALSE, NoPayload),
      MkTick(<<"notes">>, "chrome.exe", Silence, Still, FALSE, FALSE, NoPayload),
      MkTick(<<"Lo-fi Beats", "YouTube">>, "",
             Music, Video, FALSE, TRUE, NoPayload) }

BrowserNext ==
    \/ Tick
    \/ AddObservationOf(BrowserTicks, MaxCalls, MaxTime)
    \/ ForceCloseCurrent

\* a single caller on a FogLayer that watches a browser
BrowserSpec == Init /\ [][BrowserNext]_vars

(***************************************************************************)
(* The inputs of KnowledgeGate.check: the tick, the current episode, the   *)
(* knowledge bases as they are at the call, and whether the database       *)
(* answers.                                                                *)
(***************************************************************************)
\* " - ".join(parts): the window title as the string the gate is given
TitleText(title) ==
    CASE title = <<>> -> ""
      [] title = <<"notes">> -> "notes"
      [] title = <<"Lo-fi Beats", "YouTube">> -> "Lo-fi Beats - YouTube"
      [] title = <<"main.py", "myproj", "Visual Studio Code">>
            -> "main.py - myproj - Visual Studio Code"

GateTicks ==
    { MkTick(<<"Lo-fi Beats", "YouTube">>, "chrome.exe",
             Music, Video, FALSE, TRUE, Sample),
      MkTick(<<"notes">>, "chrome.exe", Silence, Still, FALSE, FALSE, NoPayload),
      MkTick(<<"main.py", "myproj", "Visual Studio Code">>, "Code.exe",
             Silence, Still, TRUE, FALSE, NoPayload),
      MkTick(<<"main.py", "myproj", "Visual Studio Code">>, "Code.exe",
             Music, Still, TRUE, FALSE, NoPayload),
      MkTick(<<>>, "", Silence, Still, FALSE, FALSE, NoPayload) }

\* the features a caller may hand to check for a tick: those extract_features
\* returns, or the same with an activity type of the caller's
FeaturesOf(tick) ==
    LET f == ExtractFeatures(tick.window_title, tick.app_name, tick.audio,
                             tick.visual, tick.has_kb, tick.has_mouse)
    IN  {f} \cup (IF f.activity_type = "general"
                  THEN {[f EXCEPT !.activity_type = "writing"]} ELSE {})

\* the current episode a caller may hand to check: None (<<>>), or the episode
\* of a FogLayer that has just started it, or has added one or two observations
GateEpisodes ==
    LET f == ExtractFeatures(WarmTick.window_title, WarmTick.app_name,
                 WarmTick.audio, WarmTick.visual, WarmTick.has_kb, WarmTick.has_mouse)
        obs1 == Observation(1, 0, WarmTick, f)
        obs2 == Observation(2, 1, WarmTick, f)
        started == StartEpisode(NewFog, obs1, f, 0)
        one == AddObservationResult(NewFog, obs1, f, WarmTick, 2, 1, 0, 0, 0)
        two == AddObservationResult(one, obs2, f, WarmTick, 2, 1, 1, 1, 1)
    IN  {<<>>, <<started.episodes[1]>>, <<one.episodes[1]>>, <<two.episodes[1]>>}

\* knowledge-base snapshots: the rows of context_embeddings, the two sections
\* of gemini_kb.json and the three of core_kb.json that the lookup reads
EmptyKb == NoKb

Behaviors == [quiet |-> "stay quiet"]

UserRows ==
    << [context_hash |-> "h1", app_name |-> "chrome.exe", window_title |-> "notes",
        occurrence_count |-> 3, behavior |-> None] >>

LearnedReactions ==
    << [key |-> "_template", context_signature |-> "chrome.exe|youtube",
        reaction_text |-> "template text", behavior |-> None],
       [key |-> "yt", context_signature |-> "chrome.exe|youtube",
        reaction_text |-> "nice beats", behavior |-> None] >>

LearnedWithoutText ==
    << [key |-> "yt", context_signature |-> "chrome.exe|youtube",
        reaction_text |-> None, behavior |-> None] >>

ContextMappings ==
    << [key |-> "ide", app_name |-> "Code.exe", behavior |-> "quiet"] >>

CoreApps ==
    << [key |-> "vscode", patterns |-> <<"code">>, default_reaction |-> "",
        behavior |-> "quiet"],
       [key |-> "chrome", patterns |-> <<"chrome">>, default_reaction |-> None,
        behavior |-> None] >>

CoreContexts ==
    << [key |-> "youtube", title_contains |-> <<"YouTube">>,
        default_reaction |-> "enjoy the video", behavior |-> "loud"] >>

KBs ==
    { EmptyKb,
      [EmptyKb EXCEPT !.user = UserRows],
      [EmptyKb EXCEPT !.learned_reactions = LearnedReactions],
      [EmptyKb EXCEPT !.learned_reactions = LearnedWithoutText,
                      !.context_mappings = ContextMappings,
                      !.behaviors = Behaviors],
      [EmptyKb EXCEPT !.apps = CoreApps, !.behaviors = Behaviors],
      [EmptyKb EXCEPT !.contexts = CoreContexts, !.behaviors = Behaviors],
      [EmptyKb EXCEPT !.user = UserRows, !.learned_reactions = LearnedReactions,
                      !.apps = CoreApps, !.contexts = CoreContexts,
                      !.behaviors = Behaviors] }

(***************************************************************************)
(* The calls of the gate.                                                  *)
(***************************************************************************)
\* KnowledgeGate.check(window_title, app_name, features, episode, force_gemini)
CheckCall ==
    \E tick \in GateTicks, episode \in GateEpisodes, kb \in KBs,
       db_fails, force_gemini \in BOOLEAN :
      \E features \in FeaturesOf(tick) :
        /\ gate_log.calls < MaxChecks
        /\ LET c == Check(stats, kb, db_fails, TitleText(tick.window_title),
                          tick.app_name, features, episode, force_gemini)
               o == Outcome(c.result)
           IN  /\ stats' = c.stats
               /\ gate_log' = [gate_log EXCEPT !.calls = @ + 1, ![o] = @ + 1]
               /\ gate_last' =
                     [NoGateCall EXCEPT
                         !.op = "check", !.before = stats,
                         !.forced = force_gemini,
                         !.looked_up = c.looked_up,
                         !.lookup_raised = c.lookup_raised,
                         !.lookup = c.lookup,
                         !.is_focused = features.is_focused,
                         !.activity_type = features.activity_type,
                         !.has_episode = (episode # <<>>),
                         !.episode_count =
                             IF episode = <<>> THEN 0
                             ELSE ObservationCount(episode[1]),
                         !.result = c.result]
        /\ UNCHANGED <<trackerVars, lookupVars, semVars, clock, fogVars, consumerVars, histVars, gateThreadVars>>

\* KnowledgeGate.get_stats()
GetStats ==
    /\ gate_last' = [NoGateCall EXCEPT !.op = "get_stats", !.before = stats,
                                       !.returned = GetStatsResult(stats)]
    /\ UNCHANGED <<trackerVars, lookupVars, semVars, stats, gate_log, clock, fogVars, consumerVars, histVars,
                   gateThreadVars>>

\* a reset that leaves gemini_saved as it is
ResetStatsKeepsSaved(st) == [NewStats EXCEPT !.gemini_saved = st.gemini_saved]

\* what reset_stats assigns to _stats
ResetStatsResult(st) == NewStats

\* KnowledgeGate.reset_stats()
ResetStats ==
    /\ stats' = ResetStatsResult(stats)
    /\ gate_log' = NewGateLog
    /\ gate_last' = [NoGateCall EXCEPT !.op = "reset_stats", !.before = stats]
    /\ UNCHANGED <<trackerVars, lookupVars, semVars, clock, fogVars, consumerVars, histVars, gateThreadVars>>

GateNext ==
    \/ CheckCall
    \/ GetStats
    \/ ResetStats

\* one caller on one KnowledgeGate
GateSpec == Init /\ [][GateNext]_vars

(***************************************************************************)
(* Two threads on one KnowledgeGate: one calls check, one calls get_stats.  *)
(* The gate holds no lock, so the threads interleave between the           *)
(* statements of the two methods.                                          *)
(***************************************************************************)
\* check line 77: the call is counted
CheckCount ==
    \E tick \in GateTicks, episode \in GateEpisodes, kb \in KBs,
       force_gemini \in BOOLEAN :
      \E features \in FeaturesOf(tick) :
        /\ check_thread.pc = "idle"
        /\ gate_log.calls < MaxChecks
        /\ LET c == Check(stats, kb, FALSE, TitleText(tick.window_title),
                          tick.app_name, features, episode, force_gemini)
           IN  check_thread' =
                   [pc |-> "counted", before |-> stats,
                    call |-> [stats |-> c.stats, found |-> c.lookup.found,
                              forced |-> force_gemini,
                              decision |-> c.result.decision]]
        /\ stats' = [stats EXCEPT !.total_checks = @ + 1]
        /\ UNCHANGED <<trackerVars, lookupVars, semVars, clock, fogVars, consumerVars, histVars, gate_log,
                       gate_last, stats_thread>>

\* check lines 80-90: the forced call returns, the others look the context up
CheckLookup ==
    /\ check_thread.pc = "counted"
    /\ IF check_thread.call.forced
       THEN /\ check_thread' = [check_thread EXCEPT !.pc = "idle"]
            /\ gate_log' = [gate_log EXCEPT !.calls = @ + 1, !.urgent = @ + 1]
       ELSE /\ check_thread' =
                   [check_thread EXCEPT
                       !.pc = IF check_thread.call.found THEN "known" ELSE "unknown"]
            /\ UNCHANGED gate_log
    /\ UNCHANGED <<trackerVars, lookupVars, semVars, clock, fogVars, consumerVars, histVars, stats, gate_last,
                   stats_thread>>

\* check line 91
CheckKnownHits ==
    /\ check_thread.pc = "known"
    /\ stats' = [stats EXCEPT !.known_hits = @ + 1]
    /\ check_thread' = [check_thread EXCEPT !.pc = "hit"]
    /\ UNCHANGED <<trackerVars, lookupVars, semVars, clock, fogVars, consumerVars, histVars, gate_log, gate_last,
                   stats_thread>>

\* check lines 92-127: gemini_saved is counted and the call returns
CheckGeminiSaved ==
    /\ check_thread.pc = "hit"
    /\ stats' = [stats EXCEPT !.gemini_saved = @ + 1]
    /\ check_thread' = [check_thread EXCEPT !.pc = "idle"]
    /\ gate_log' = [gate_log EXCEPT
                       !.calls = @ + 1,
                       ![Outcome([decision |-> check_thread.call.decision])] = @ + 1]
    /\ UNCHANGED <<trackerVars, lookupVars, semVars, clock, fogVars, consumerVars, histVars, gate_last, stats_thread>>

\* check lines 132-147: the unknown context is counted and the call returns
CheckUnknown ==
    /\ check_thread.pc = "unknown"
    /\ stats' = IF check_thread.call.decision = "UNKNOWN_URGENT"
                THEN [stats EXCEPT !.unknown_urgent = @ + 1]
                ELSE [stats EXCEPT !.unknown_queued = @ + 1]
    /\ check_thread' = [check_thread EXCEPT !.pc = "idle"]
    /\ gate_log' = [gate_log EXCEPT
                       !.calls = @ + 1,
                       ![Outcome([decision |-> check_thread.call.decision])] = @ + 1]
    /\ UNCHANGED <<trackerVars, lookupVars, semVars, clock, fogVars, consumerVars, histVars, gate_last, stats_thread>>

\* get_stats line 191
StatsReadTotal ==
    /\ stats_thread.pc = "idle"
    /\ stats_thread' = [stats_thread EXCEPT !.pc = "total",
                                            !.total = stats.total_checks]
    /\ UNCHANGED <<trackerVars, lookupVars, semVars, clock, fogVars, consumerVars, histVars, stats, gate_log,
                   gate_last, check_thread>>

\* get_stats lines 192-195
StatsHitRate ==
    /\ stats_thread.pc = "total"
    /\ stats_thread' =
           [stats_thread EXCEPT
               !.pc = "rate",
               !.hit_rate_tenths = HitRateTenths(stats_thread.total,
                                                 stats.known_hits)]
    /\ UNCHANGED <<trackerVars, lookupVars, semVars, clock, fogVars, consumerVars, histVars, stats, gate_log,
                   gate_last, check_thread>>

\* get_stats lines 197-200: _stats is copied into the dict that is returned
StatsReturn ==
    /\ stats_thread.pc = "rate"
    /\ LET returned == [counters |-> stats,
                        hit_rate_tenths |-> stats_thread.hit_rate_tenths]
       IN  /\ stats_thread' = [stats_thread EXCEPT !.pc = "idle",
                                                   !.returned = returned,
                                                   !.during = check_thread]
           /\ gate_last' = [NoGateCall EXCEPT !.op = "get_stats",
                                              !.before = stats,
                                              !.returned = returned]
    /\ UNCHANGED <<trackerVars, lookupVars, semVars, clock, fogVars, consumerVars, histVars, stats, gate_log,
                   check_thread>>

GateThreadsNext ==
    \/ CheckCount
    \/ CheckLookup
    \/ CheckKnownHits
    \/ CheckGeminiSaved
    \/ CheckUnknown
    \/ StatsReadTotal
    \/ StatsHitRate
    \/ StatsReturn

\* a thread in check and a thread in get_stats on one KnowledgeGate
GateThreadsSpec == Init /\ [][GateThreadsNext]_vars

(***************************************************************************)
(* SemanticLayer.extract_features, tick after tick on one SemanticLayer.    *)
(***************************************************************************)
\* buffers of audio bytes: two seconds of loud music, of clipping speech and
\* of a hum between the two thresholds, the same music cut to an odd number
\* of bytes, and a buffer too short to be looked at
LoudMusic == PcmAudio(176400, 1000, "music")
LoudSpeech == PcmAudio(176400, 4000, "speech")
Hum == PcmAudio(176400, 50, "flat")
OddMusic == PcmAudio(176399, 1000, "music")
ShortAudio == PcmAudio(50, 1000, "music")

SemTick(title, app, audio_bytes, visual_diff, kb, mouse) ==
    [window_title |-> title, app_name |-> app, audio_bytes |-> audio_bytes,
     visual_diff |-> visual_diff, has_kb |-> kb, has_mouse |-> mouse]

\* the tick of a still editor window, typed into, with no audio
CodingTick ==
    SemTick(<<"main.py", "myproj", "Visual Studio Code">>, "Code.exe",
            NoAudio, 0, TRUE, FALSE)

\* what the sampler may hand to extract_features in one tick
SemTicks ==
    { CodingTick,
      SemTick(<<"Lo-fi Beats", "YouTube">>, "chrome.exe", LoudMusic, 4, FALSE, TRUE),
      SemTick(<<"notes">>, "chrome.exe", Hum, 0, FALSE, FALSE),
      SemTick(<<"notes", "">>, "", NoAudio, 4, FALSE, FALSE),
      SemTick(<<>>, "Code.exe", OddMusic, 40, TRUE, TRUE),
      SemTick(<<"notes">>, "chrome.exe", LoudSpeech, 4, FALSE, FALSE),
      SemTick(<<"main.py", "myproj", "Visual Studio Code">>, "Code.exe",
              LoudMusic, 0, TRUE, FALSE),
      SemTick(<<"general", "Discord">>, "", ShortAudio, 4, FALSE, TRUE) }

\* SemanticLayer.extract_features on a layer whose analyzers hold lv and ch,
\* after the call prev made: the analyzers' state after the call and the
\* history's entry of the call.  parse comes first: when it raises, neither
\* analyzer is called
ExtractFeaturesResult(lv, ch, prev, tick) ==
    LET entry ==
            [NoSemCall EXCEPT
                !.op = "extract",
                !.window_title = tick.window_title, !.app_name = tick.app_name,
                !.audio_bytes = tick.audio_bytes,
                !.visual_diff = tick.visual_diff,
                !.has_kb = tick.has_kb, !.has_mouse = tick.has_mouse,
                !.prev_returned = (prev.op = "extract" /\ ~prev.raised),
                !.prev_volume = prev.result.audio.volume_level,
                !.samples = prev.samples]
    IN  IF ParseRaises(tick.window_title, tick.app_name)
        THEN [last_volume |-> lv, change_history |-> ch,
              sem_last |-> [entry EXCEPT !.raised = TRUE]]
        ELSE LET a == AudioAnalyze(lv, tick.audio_bytes)
                 v == VisualAnalyze(ch, tick.visual_diff)
             IN  [last_volume |-> a.last_volume,
                  change_history |-> v.change_history,
                  sem_last |->
                      [entry EXCEPT
                          !.samples = @ + 1,
                          !.result =
                              ExtractFeatures(tick.window_title, tick.app_name,
                                              a.features, v.features,
                                              tick.has_kb, tick.has_mouse)]]

\* semantic_layer.extract_features(window_title, app_name, audio_bytes,
\* visual_diff, has_keyboard_input, has_mouse_input)
ExtractFeaturesCall ==
    \E tick \in SemTicks :
        /\ \/ sem_calls < MaxSemCalls
           \/ sem_calls >= SemWarmup /\ sem_calls < SemWarmup + MaxSemCalls
        /\ LET r == ExtractFeaturesResult(last_volume, change_history, sem_last, tick)
           IN  /\ last_volume' = r.last_volume
               /\ change_history' = r.change_history
               /\ sem_last' = r.sem_last
        /\ sem_calls' = sem_calls + 1
        /\ UNCHANGED <<trackerVars, clock, fogVars, consumerVars, histVars, gateVars, lookupVars>>

\* a SemanticLayer that has seen SemWarmup ticks of the still editor window
WarmSemanticLayer ==
    LET r == ExtractFeaturesResult(0, [i \in 1..(SemWarmup - 1) |-> 0],
                 [NoSemCall EXCEPT !.op = "extract", !.samples = SemWarmup - 1],
                 CodingTick)
    IN  /\ last_volume = r.last_volume
        /\ change_history = r.change_history
        /\ sem_calls = SemWarmup
        /\ sem_last = r.sem_last

\* the layer is new, or has been in use
SemInit ==
    /\ PipelineInit
    /\ NewSemanticLayer \/ WarmSemanticLayer
    /\ NewAppTracker

SemNext == ExtractFeaturesCall

SemSpec == SemInit /\ [][SemNext]_vars

(***************************************************************************)
(* SemanticLayer._classify_activity on its own: any parsed title with any  *)
(* flags of the analyzers and of the input devices.                        *)
(***************************************************************************)
ClassifyTitles ==
    { [EmptyParsedTitle(<<>>) EXCEPT
          !.app_name = app, !.file_extension = ext, !.platform = pf[1],
          !.url_domain = pf[2]] :
        app \in {None, "Slack", "chrome.exe"},
        ext \in {None, ".py", ".md"},
        pf \in { <<None, None>>, <<"YouTube", "youtube">>, <<"Netflix", None>>,
                 <<"Spotify", None>>, <<"Discord", "discord">>,
                 <<"GitHub", "github">>, <<"Reddit", "reddit">> } }

\* the flags of AudioFeatures the classification reads
ClassifyAudio ==
    { [DefaultAudioFeatures EXCEPT !.has_audio = a[1], !.is_music_like = a[2]] :
        a \in { <<FALSE, FALSE>>, <<TRUE, FALSE>>, <<TRUE, TRUE>> } }

\* the flags of VisualFeatures the classification reads
ClassifyVisual ==
    { [NoFeatures.visual EXCEPT !.is_video_playing = v] : v \in BOOLEAN }

\* self._classify_activity(title, audio, visual, has_kb, has_mouse); the
\* method reads and writes no state, so one call a run shows all it does
ClassifyCall ==
    \E title \in ClassifyTitles, audio \in ClassifyAudio, visual \in ClassifyVisual,
       has_kb, has_mouse \in BOOLEAN :
        /\ sem_last.op = "none"
        /\ sem_last' =
               [NoSemCall EXCEPT
                   !.op = "classify", !.has_kb = has_kb, !.has_mouse = has_mouse,
                   !.result =
                       [NoFeatures EXCEPT
                           !.title = title, !.audio = audio, !.visual = visual,
                           !.activity_type =
                               ClassifyActivity(title, audio, visual,
                                                has_kb, has_mouse)]]
        /\ UNCHANGED <<trackerVars, clock, fogVars, consumerVars, histVars, gateVars, lookupVars,
                       last_volume, change_history, sem_calls>>

ClassifyNext == ClassifyCall

ClassifySpec == Init /\ [][ClassifyNext]_vars

(***************************************************************************)
(* database.lookup_app_in_kb on its own: any app name with any window      *)
(* title, against knowledge bases of any filling.                          *)
(***************************************************************************)
LookupApps == {"", "chrome.exe", "Code.exe"}

LookupTitles ==
    {"", "notes", "Lo-fi Beats - YouTube", "main.py - myproj - Visual Studio Code"}

\* a second row of context_embeddings, seen more often than the first
UserRowsTwo ==
    UserRows \o
    << [context_hash |-> "h2", app_name |-> "Code.exe",
        window_title |-> "main.py - myproj - Visual Studio Code",
        occurrence_count |-> 5, behavior |-> None] >>

LookupKBs ==
    KBs \cup
    { [EmptyKb EXCEPT !.learned_reactions = LearnedReactions,
                      !.context_mappings = ContextMappings,
                      !.apps = CoreApps, !.contexts = CoreContexts,
                      !.behaviors = Behaviors],
      [EmptyKb EXCEPT !.context_mappings = ContextMappings,
                      !.contexts = CoreContexts, !.behaviors = Behaviors],
      [EmptyKb EXCEPT !.user = UserRowsTwo, !.apps = CoreApps,
                      !.behaviors = Behaviors] }

\* database.lookup_app_in_kb(app_name, window_title); db_fails: sqlite raises
\* in lines 937-946 and the call does not return
LookupCall ==
    \E kb \in LookupKBs, app_name \in LookupApps, window_title \in LookupTitles,
       db_fails \in BOOLEAN :
        /\ lookup_last' =
               [op |-> "lookup", kb |-> kb, app_name |-> app_name,
                window_title |-> window_title, raised |-> db_fails,
                result |-> IF db_fails THEN NotFound
                           ELSE LookupAppInKb(kb, app_name, window_title)]
        /\ UNCHANGED <<trackerVars, clock, fogVars, consumerVars, histVars, gateVars, semVars>>

LookupNext == LookupCall

LookupSpec == Init /\ [][LookupNext]_vars

(***************************************************************************)
(* AppTracker.  start and stop are called by one controlling thread (the   *)
(* ActivityCollector), _poll_loop runs in the thread start creates.  The   *)
(* tracker takes no lock, so the poll thread and stop interleave between   *)
(* their statements; _log_focus_end is taken as one step.  The loop ends   *)
(* within the two seconds stop waits in join.                              *)
(***************************************************************************)
fogAndGate == <<fogVars, consumerVars, histVars, gateVars, lookupVars, semVars>>

\* the user gives the focus to another window, or to none
SwitchWindow ==
    /\ \E w \in Windows \ {foreground} : foreground' = w
    /\ UNCHANGED <<clock, fogAndGate, running, thread, current_app, current_title,
                   focus_start, stop_pc, app_activity>>

\* a second passes
TrackerTick ==
    /\ clock < MaxTrackTime
    /\ clock' = clock + 1
    /\ UNCHANGED <<fogAndGate, trackerVars>>

\* AppTracker.start()
Start ==
    /\ stop_pc = "idle"
    /\ Len(app_activity) < MaxRows
    /\ IF running
       THEN UNCHANGED <<running, thread>>
       ELSE /\ running' = TRUE
            /\ thread' = [NoThread EXCEPT !.pc = "while"]
    /\ UNCHANGED <<clock, fogAndGate, foreground, current_app, current_title,
                   focus_start, stop_pc, app_activity>>

\* _poll_loop line 204: while self._running
PollWhile ==
    /\ thread.pc = "while"
    /\ thread' = [thread EXCEPT !.pc = IF running THEN "poll" ELSE "done"]
    /\ UNCHANGED <<clock, fogAndGate, foreground, running, current_app,
                   current_title, focus_start, stop_pc, app_activity>>

\* _poll_loop lines 206-209: read the focused window, compare with the current
PollWindow ==
    /\ thread.pc = "poll"
    /\ thread' =
          [pc |-> IF foreground.app_name # current_app
                     \/ foreground.title # current_title
                  THEN "log" ELSE "sleep",
           app_name |-> foreground.app_name, title |-> foreground.title]
    /\ UNCHANGED <<clock, fogAndGate, foreground, running, current_app,
                   current_title, focus_start, stop_pc, app_activity>>

\* _poll_loop line 211: self._log_focus_end()
PollLogFocusEnd ==
    /\ thread.pc = "log"
    /\ app_activity' = LogFocusEnd(app_activity, current_app, current_title,
                                   focus_start, clock)
    /\ thread' = [thread EXCEPT !.pc = "focus"]
    /\ UNCHANGED <<clock, fogAndGate, foreground, running, current_app,
                   current_title, focus_start, stop_pc>>

\* _poll_loop lines 214-216: start tracking the new focus
PollStartFocus ==
    /\ thread.pc = "focus"
    /\ current_app' = thread.app_name
    /\ current_title' = thread.title
    /\ focus_start' = clock
    /\ thread' = [thread EXCEPT !.pc = "sleep"]
    /\ UNCHANGED <<clock, fogAndGate, foreground, running, stop_pc, app_activity>>

\* _poll_loop line 221: time.sleep(self.poll_interval) is over
PollSleep ==
    /\ thread.pc = "sleep"
    /\ thread' = [thread EXCEPT !.pc = "while"]
    /\ UNCHANGED <<clock, fogAndGate, foreground, running, current_app,
                   current_title, focus_start, stop_pc, app_activity>>

\* AppTracker.stop() lines 239-242
StopBegin ==
    /\ stop_pc = "idle"
    /\ IF running
       THEN running' = FALSE /\ stop_pc' = "log"
       ELSE UNCHANGED <<running, stop_pc>>
    /\ UNCHANGED <<clock, fogAndGate, foreground, thread, current_app,
                   current_title, focus_start, app_activity>>

\* AppTracker.stop() line 243: self._log_focus_end()
StopLogFocusEnd ==
    /\ stop_pc = "log"
    /\ app_activity' = LogFocusEnd(app_activity, current_app, current_title,
                                   focus_start, clock)
    /\ stop_pc' = "join"
    /\ UNCHANGED <<clock, fogAndGate, foreground, running, thread, current_app,
                   current_title, focus_start>>

\* AppTracker.stop() lines 245-248: self._thread.join returns
StopJoin ==
    /\ stop_pc = "join"
    /\ thread.pc = "done"
    /\ stop_pc' = "idle"
    /\ UNCHANGED <<clock, fogAndGate, foreground, running, thread, current_app,
                   current_title, focus_start, app_activity>>

TrackerNext ==
    \/ SwitchWindow
    \/ TrackerTick
    \/ Start
    \/ PollWhile
    \/ PollWindow
    \/ PollLogFocusEnd
    \/ PollStartFocus
    \/ PollSleep
    \/ StopBegin
    \/ StopLogFocusEnd
    \/ StopJoin

\* an AppTracker, its poll thread, and the thread that starts and stops it
TrackerSpec == Init /\ [][TrackerNext]_vars

\* KnowledgeGate.check on a new gate, with the knowledge bases the lookup of the
\* call finds: the call as CheckCall takes it, and what its call of
\* lookup_app_in_kb was asked, when it makes one
CheckOnce ==
    \E tick \in GateTicks, episode \in GateEpisodes, kb \in LookupKBs,
       db_fails, force_gemini \in BOOLEAN :
      \E features \in FeaturesOf(tick) :
        /\ gate_last.op = "none"
        /\ LET window_title == TitleText(tick.window_title)
               c == Check(stats, kb, db_fails, window_title, tick.app_name,
                          features, episode, force_gemini)
               o == Outcome(c.result)
           IN  /\ stats' = c.stats
               /\ gate_log' = [gate_log EXCEPT !.calls = @ + 1, ![o] = @ + 1]
               /\ gate_last' =
                     [NoGateCall EXCEPT
                         !.op = "check", !.before = stats,
                         !.forced = force_gemini,
                         !.looked_up = c.looked_up,
                         !.lookup_raised = c.lookup_raised,
                         !.lookup = c.lookup,
                         !.is_focused = features.is_focused,
                         !.activity_type = features.activity_type,
                         !.has_episode = (episode # <<>>),
                         !.episode_count =
                             IF episode = <<>> THEN 0
                             ELSE ObservationCount(episode[1]),
                         !.result = c.result]
               /\ lookup_last' =
                     IF c.looked_up
                     THEN [op |-> "lookup", kb |-> kb, app_name |-> tick.app_name,
                           window_title |-> window_title,
                           raised |-> c.lookup_raised, result |-> c.lookup]
                     ELSE lookup_last
        /\ UNCHANGED <<trackerVars, semVars, clock, fogVars, consumerVars, histVars,
                       gateThreadVars>>

GateKbNext == CheckOnce

\* one call of check, for every knowledge base and context of the model
GateKbSpec == Init /\ [][GateKbNext]_vars

(***************************************************************************)
(* Properties of the episode aggregator.                                   *)
(***************************************************************************)
EpisodeIds == 1..Len(episodes)

\* the last call was an add_observation that found an episode open
AddedToOpen == last.op = "add" /\ last.had # NoEpisode

\* the time since the episode's start that this add_observation measured
Elapsed == last.obs.timestamp - last.before.start_time

\* C1: at most one episode is ACTIVE.  Only FogLayer.current_episode can be
\* ACTIVE, it is the newest episode, and every episode created before the
\* newest one is CLOSED: a new episode is opened only after the previous one
\* was set to CLOSED.
C1_AtMostOneActive ==
    /\ \A e \in EpisodeIds :
          episodes[e].state = "ACTIVE" => (e = current_episode /\ e = Len(episodes))
    /\ \A e \in EpisodeIds : e < Len(episodes) => episodes[e].state = "CLOSED"
    /\ Cardinality({e \in EpisodeIds : episodes[e].state = "ACTIVE"}) <= 1

\* add_observation closed an episode and opened the next one
C1_Witness ==
    /\ last.op = "add" /\ last.returned # NoEpisode
    /\ episodes[last.returned].state = "CLOSED"
    /\ current_episode = Len(episodes)
    /\ current_episode # last.returned
    /\ episodes[current_episode].state = "ACTIVE"


\* C2: an episode's state only moves forward along ACTIVE -> CLOSED ->
\* PROCESSED, one step at a time: no step takes a CLOSED or PROCESSED episode
\* back to ACTIVE, none takes an ACTIVE episode to PROCESSED, so an episode is
\* closed at most once; a new episode starts ACTIVE.
C2_ForwardOnly ==
    [][ /\ \A e \in EpisodeIds :
              \/ episodes'[e].state = episodes[e].state
              \/ episodes[e].state = "ACTIVE" /\ episodes'[e].state = "CLOSED"
              \/ episodes[e].state = "CLOSED" /\ episodes'[e].state = "PROCESSED"
        /\ Len(episodes') >= Len(episodes)
        /\ \A e \in (Len(episodes) + 1)..Len(episodes') : episodes'[e].state = "ACTIVE"
      ]_vars

\* two episodes have gone from ACTIVE to CLOSED, one after the other
C2_Witness ==
    /\ Len(episodes) >= 2
    /\ episodes[1].state = "CLOSED"
    /\ episodes[2].state = "CLOSED"
    /\ episode_history = <<1, 2>>

\* the run is over: the clock and the calls are used up, the last episode
\* was closed and the pending queue was handed to the consumer
RunOver ==
    /\ clock = MaxTime
    /\ calls = MaxCalls
    /\ current_episode = NoEpisode
    /\ pending_episodes = <<>>

\* C3: every episode that reaches CLOSED later changes to PROCESSED: when the
\* run is over no episode is left CLOSED.
C3_ClosedBecomesProcessed ==
    RunOver => \A e \in EpisodeIds : episodes[e].state = "PROCESSED"

\* C4: an add_observation that finds the active episode open for more than
\* max_duration closes it in that call, whatever the observation holds, and
\* opens a new episode whose first observation is the observation of the call.
C4_MaxDurationCloses ==
    (AddedToOpen /\ Elapsed > max_duration) =>
        /\ last.returned = last.had
        /\ episodes[last.had].state = "CLOSED"
        /\ current_episode # NoEpisode
        /\ current_episode # last.had
        /\ episodes[current_episode].state = "ACTIVE"
        /\ episodes[current_episode].observations = <<last.obs>>

\* an episode older than max_duration was closed by an observation that is no
\* significant change
C4_Witness ==
    /\ AddedToOpen
    /\ Elapsed > max_duration
    /\ ~last.significant
    /\ last.returned = last.had
    /\ episodes[current_episode].observations = <<last.obs>>

\* C5: when add_observation closes an episode the observation of the call goes
\* to the newly opened episode and not to the closed one, and the observation
\* list of an episode that is CLOSED is never changed again.
C5_ClosedObservationsFrozen ==
    /\ [](last.op = "add" /\ last.returned # NoEpisode =>
            /\ current_episode # last.returned
            /\ episodes[current_episode].observations = <<last.obs>>
            /\ \A i \in DOMAIN episodes[last.returned].observations :
                  episodes[last.returned].observations[i].seq # last.obs.seq)
    /\ [][\A e \in EpisodeIds :
              episodes'[e].state # "ACTIVE" =>
                  episodes'[e].observations = episodes[e].observations]_vars

\* an episode with two observations was closed by a third one
C5_Witness ==
    /\ last.op = "add" /\ last.returned # NoEpisode
    /\ Len(episodes[last.returned].observations) = 2
    /\ episodes[current_episode].observations = <<last.obs>>

\* C6: with min_duration <= max_duration, add_observation never closes an
\* episode whose elapsed time is at most min_duration, however significant
\* the change; when the elapsed time exceeds min_duration but not
\* max_duration it closes the episode exactly when the observation is a
\* significant change.
C6_MinDurationGate ==
    (AddedToOpen /\ min_duration <= max_duration) =>
        /\ Elapsed <= min_duration =>
              /\ last.returned = NoEpisode
              /\ current_episode = last.had
              /\ episodes[last.had].state = "ACTIVE"
        /\ (Elapsed > min_duration /\ Elapsed <= max_duration) =>
              /\ (last.returned # NoEpisode) = last.significant
              /\ last.returned \in {NoEpisode, last.had}
              /\ (last.returned = NoEpisode) = (current_episode = last.had)

\* a significant change arrived within min_duration and closed nothing
C6_Witness ==
    /\ AddedToOpen
    /\ min_duration <= max_duration
    /\ min_duration > 0
    /\ Elapsed <= min_duration
    /\ last.significant
    /\ last.returned = NoEpisode
    /\ current_episode = last.had


\* C7: an observation is a significant change whenever the app name given to
\* add_observation differs from the episode's primary app, or its activity
\* type differs from the primary activity, or its platform differs from the
\* primary platform (a change to no platform and an empty title included).
C7_AnyDifferenceIsSignificant ==
    (AddedToOpen /\ (\/ last.obs.app_name # last.before.primary_app
                     \/ last.obs.features.activity_type # last.before.primary_activity
                     \/ last.obs.features.title.platform # last.before.primary_platform))
        => last.significant

\* C8: the passive rule is asymmetric.  A non-passive observation arriving in
\* an episode whose is_passive flag is set is always a significant change; a
\* passive observation arriving in a non-passive episode is no significant
\* change when no other ground (app, activity, platform) applies.
C8_PassiveAsymmetry ==
    AddedToOpen =>
        /\ (last.before.is_passive /\ ~last.obs.features.is_passive)
              => last.significant
        /\ (/\ ~last.before.is_passive
            /\ last.obs.features.is_passive
            /\ ~AppChanged(last.before, last.obs.features)
            /\ ~ActivityChanged(last.before, last.obs.features)
            /\ ~PlatformChanged(last.before, last.obs.features))
              => ~last.significant

\* a passive observation with the episode's app, activity and platform arrived
\* in a non-passive episode after min_duration and closed nothing
C8_Witness ==
    /\ AddedToOpen
    /\ ~last.before.is_passive
    /\ last.obs.features.is_passive
    /\ last.obs.app_name = last.before.primary_app
    /\ last.obs.features.activity_type = last.before.primary_activity
    /\ last.obs.features.title.platform = last.before.primary_platform
    /\ Elapsed > min_duration /\ Elapsed <= max_duration
    /\ ~last.significant
    /\ last.returned = NoEpisode
    /\ episodes[current_episode].is_passive

\* C9: every episode has at least one observation when it is closed, by
\* add_observation or by force_close_current (a closed episode's observations
\* do not change, C5).
C9_NeverClosedEmpty ==
    /\ \A e \in EpisodeIds :
          episodes[e].state = "CLOSED" => Len(episodes[e].observations) >= 1
    /\ last.returned # NoEpisode => Len(episodes[last.returned].observations) >= 1

\* force_close_current closed an episode that add_observation had just opened
C9_Witness ==
    /\ last.op = "force" /\ last.returned # NoEpisode
    /\ episodes[last.returned].state = "CLOSED"
    /\ Len(episodes[last.returned].observations) = 1

\* C10 as stated: with observations at most one tick interval apart, every
\* episode closed by add_observation has total_duration at most max_duration
\* plus one tick interval.
C10_DurationBound ==
    (last.op = "add" /\ last.returned # NoEpisode /\ max_gap <= TickInterval) =>
        episodes[last.returned].total_duration <= max_duration + TickInterval

\* C10 amended: the bound holds for the elapsed time the closing call measured
\* at its entry; total_duration exceeds max_duration plus one tick interval by
\* no more than the time that passed inside the closing call before
\* _close_episode read the clock.
C10_DurationBoundAtEntry ==
    (last.op = "add" /\ last.returned # NoEpisode /\ max_gap <= TickInterval) =>
        /\ Elapsed <= max_duration + TickInterval
        /\ episodes[last.returned].total_duration
              <= max_duration + TickInterval
                 + (episodes[last.returned].end_time - last.obs.timestamp)

\* an episode was closed on max_duration with total_duration at the bound
C10_Witness ==
    /\ last.op = "add" /\ last.returned # NoEpisode
    /\ max_gap <= TickInterval
    /\ calls >= 2
    /\ Elapsed > max_duration
    /\ episodes[last.returned].total_duration = max_duration + TickInterval

(***************************************************************************)
(* The pending queue and the history.                                      *)
(***************************************************************************)
\* the episodes that are CLOSED, oldest first.  Episodes are closed in the
\* order they were created: an episode is created only when none is current
ClosedInOrder ==
    SelectSeq([e \in EpisodeIds |-> e], LAMBDA e : episodes[e].state = "CLOSED")

\* the closed episodes no get_pending_episodes call has returned yet
Undelivered == SubSeq(ClosedInOrder, Len(delivered) + 1, Len(ClosedInOrder))

\* C11: with a single caller every closed episode is returned by exactly one
\* get_pending_episodes call, the first one after it was closed, in closing
\* order: what the calls returned so far followed by what is queued is the
\* list of closed episodes in closing order, each call returns exactly the
\* episodes closed since the previous call, and a call that follows another
\* one with no call in between returns the empty list.
C11_DrainExactlyOnce ==
    /\ [](delivered \o pending_episodes = ClosedInOrder)
    /\ [](last.op = "drain" => pending_episodes = <<>>)
    /\ [][GetPendingEpisodes =>
            /\ last'.drained = Undelivered
            /\ last.op = "drain" => last'.drained = <<>>]_vars

\* one call returned the first closed episode and a later call the next two,
\* in closing order
C11_Witness ==
    /\ last.op = "drain"
    /\ last.drained = <<2, 3>>
    /\ delivered = <<1, 2, 3>>
    /\ \A e \in 1..3 : episodes[e].state = "CLOSED"

InSeq(x, q) == \E i \in DOMAIN q : q[i] = x

\* C12: get_pending_episodes is an atomic drain.  With a producer thread
\* closing episodes while a consumer thread runs get_pending_episodes, no
\* closed episode is lost: every closed episode is in the pending queue, in
\* the list the running call is about to return, or in a list a call returned.
C12_NoEpisodeLost ==
    \A e \in EpisodeIds :
        episodes[e].state = "CLOSED" =>
            \/ InSeq(e, pending_episodes)
            \/ InSeq(e, episodes_copy)
            \/ InSeq(e, delivered)

\* the last n elements of q (all of q when it has fewer)
LastN(q, n) == SubSeq(q, IF Len(q) > n THEN Len(q) - n + 1 ELSE 1, Len(q))

\* C13: episode_history never holds more than 50 episodes and always equals
\* the most recently closed episodes (up to 50) in closing order: closing a
\* 51st episode evicts the oldest-closed one; get_pending_episodes never
\* changes the history.
C13_HistoryIsLast50 ==
    /\ [](Len(episode_history) <= 50)
    /\ [](episode_history = LastN(ClosedInOrder, 50))
    /\ [][GetPendingEpisodes => episode_history' = episode_history]_vars

\* 52 episodes have been closed: the history holds the last 50, the first two
\* are gone
C13_Witness ==
    /\ Len(ClosedInOrder) = 52
    /\ Len(episode_history) = 50
    /\ episode_history[1] = 3
    /\ episode_history[50] = 52

\* the episode e has been finalised: end time, total duration, state
Finalised(e) ==
    /\ episodes[e].state = "CLOSED"
    /\ episodes[e].end_time # NoTime
    /\ episodes[e].total_duration = episodes[e].end_time - episodes[e].start_time

\* C14: force_close_current closes the active episode whatever its age, by
\* the finalisation of a normal close: end time (the clock's reading), total
\* duration and state CLOSED are set, the episode is appended to the history
\* and to the pending queue and returned, and no episode is active.  With no
\* active episode it returns None and changes nothing, so no episode is
\* queued twice.  The episode add_observation closes is finalised alike.
C14_ForceClose ==
    /\ [][ForceCloseCurrent =>
            IF current_episode # NoEpisode
            THEN /\ last'.returned = current_episode
                 /\ episodes'[current_episode].end_time = clock
                 /\ episodes'[current_episode].total_duration
                        = clock - episodes[current_episode].start_time
                 /\ episodes'[current_episode].state = "CLOSED"
                 /\ episodes'[current_episode].observations
                        = episodes[current_episode].observations
                 /\ episode_history'
                        = LastN(Append(episode_history, current_episode), 50)
                 /\ pending_episodes' = Append(pending_episodes, current_episode)
                 /\ current_episode' = NoEpisode
                 /\ \A e \in EpisodeIds :
                        e # current_episode => episodes'[e] = episodes[e]
            ELSE /\ last'.returned = NoEpisode
                 /\ UNCHANGED fogVars]_vars
    /\ [](last.op \in {"force", "add"} /\ last.returned # NoEpisode =>
            /\ Finalised(last.returned)
            /\ Last(episode_history) = last.returned
            /\ Last(pending_episodes) = last.returned
            /\ current_episode # last.returned)
    /\ [](\A i, j \in DOMAIN pending_episodes :
              pending_episodes[i] = pending_episodes[j] => i = j)

\* force_close_current closed an episode younger than min_duration; it was
\* called again and the episode is queued once
C14_Witness ==
    /\ last.op = "force"
    /\ last.had = NoEpisode
    /\ last.returned = NoEpisode
    /\ min_duration > 0
    /\ Len(episodes) = 1
    /\ Finalised(1)
    /\ episodes[1].total_duration < min_duration
    /\ pending_episodes = <<1>>
    /\ episode_history = <<1>>
    /\ current_episode = NoEpisode

(***************************************************************************)
(* Properties of the knowledge gate.                                       *)
(***************************************************************************)
\* the last call was a check without force_gemini whose lookup returned
Unforced == gate_last.op = "check" /\ ~gate_last.forced /\ ~gate_last.lookup_raised

COUNTERS ==
    {"total_checks", "known_hits", "unknown_queued", "unknown_urgent", "gemini_saved"}

C16_KnownDecision ==
    (Unforced /\ gate_last.lookup.found) =>
        /\ ~gate_last.result.should_call_gemini
        /\ IF gate_last.lookup.reaction \notin {None, ""}
           THEN /\ gate_last.result.decision = "KNOWN_USE_TEMPLATE"
                /\ gate_last.result.reaction = gate_last.lookup.reaction
                /\ gate_last.result.source = gate_last.lookup.source
           ELSE gate_last.result.decision = "KNOWN_SKIP"

\* a known app with an empty reaction string was skipped although the
\* features are those of focused work
C16_Witness ==
    /\ Unforced /\ gate_last.lookup.found
    /\ gate_last.lookup.reaction = ""
    /\ gate_last.is_focused
    /\ gate_last.result.decision = "KNOWN_SKIP"
    /\ ~gate_last.result.should_call_gemini

\* C17: an unforced check whose lookup reports found = False returns
\* UNKNOWN_URGENT with should_call_gemini = True exactly when the features
\* are focused, or an episode is given with observation_count <= 1, or the
\* activity type is 'coding' or 'writing'; otherwise it returns UNKNOWN_QUEUE
\* with should_call_gemini = False.
C17_UnknownDecision ==
    (Unforced /\ ~gate_last.lookup.found) =>
        IF \/ gate_last.is_focused
           \/ (gate_last.has_episode /\ gate_last.episode_count <= 1)
           \/ gate_last.activity_type \in {"coding", "writing"}
        THEN /\ gate_last.result.decision = "UNKNOWN_URGENT"
             /\ gate_last.result.should_call_gemini
        ELSE /\ gate_last.result.decision = "UNKNOWN_QUEUE"
             /\ ~gate_last.result.should_call_gemini

\* an unknown context is urgent only because it is the first observation of
\* the episode
C17_Witness ==
    /\ Unforced /\ gate_last.looked_up /\ ~gate_last.lookup.found
    /\ ~gate_last.is_focused
    /\ gate_last.activity_type = "general"
    /\ gate_last.has_episode /\ gate_last.episode_count = 1
    /\ gate_last.result.decision = "UNKNOWN_URGENT"

\* C18: when lookup_app_in_kb raises during an unforced check, check does not
\* raise: it returns what it returns for found = False, UNKNOWN_URGENT or
\* UNKNOWN_QUEUE by the urgency of the features and the episode.
C18_LookupFailureIsNotFound ==
    (gate_last.op = "check" /\ ~gate_last.forced /\ gate_last.lookup_raised) =>
        IF \/ gate_last.is_focused
           \/ (gate_last.has_episode /\ gate_last.episode_count <= 1)
           \/ gate_last.activity_type \in {"coding", "writing"}
        THEN gate_last.result.decision = "UNKNOWN_URGENT"
        ELSE gate_last.result.decision = "UNKNOWN_QUEUE"

\* C19: after any sequence of check calls since construction or the last
\* reset_stats the counters are the outcome counts: total_checks the number of
\* calls, known_hits and gemini_saved the number of calls that returned
\* KNOWN_USE_TEMPLATE or KNOWN_SKIP, unknown_queued the number that returned
\* UNKNOWN_QUEUE, unknown_urgent the number that returned UNKNOWN_URGENT.
C19_CountersAreOutcomeCounts ==
    /\ stats.total_checks = gate_log.calls
    /\ stats.known_hits = gate_log.template + gate_log.skip
    /\ stats.gemini_saved = gate_log.template + gate_log.skip
    /\ stats.unknown_queued = gate_log.queue
    /\ stats.unknown_urgent = gate_log.urgent

\* C20: the counters are reset only by reset_stats.  check decreases no
\* counter, get_stats leaves every counter as it is, reset_stats sets all
\* five to 0, and no other step lowers a counter.
C20_ResetOnlyByResetStats ==
    /\ [](gate_last.op = "check" =>
            \A k \in COUNTERS : stats[k] >= gate_last.before[k])
    /\ [](gate_last.op = "get_stats" =>
            /\ stats = gate_last.before
            /\ gate_last.returned.counters = stats)
    /\ [](gate_last.op = "reset_stats" =>
            /\ DOMAIN stats = COUNTERS
            /\ \A k \in COUNTERS : stats[k] = 0)
    /\ [][(\E k \in COUNTERS : stats'[k] < stats[k]) =>
              gate_last'.op = "reset_stats"]_vars

\* reset_stats zeroed counters that two checks, one of a known and one of an
\* unknown context, had raised
C20_Witness ==
    /\ gate_last.op = "reset_stats"
    /\ gate_last.before.total_checks = 2
    /\ gate_last.before.known_hits = 1
    /\ gate_last.before.gemini_saved = 1
    /\ gate_last.before.unknown_queued = 1
    /\ stats = NewStats

(***************************************************************************)
(* Properties of the knowledge lookup.                                     *)
(***************************************************************************)
\* the last call of lookup_app_in_kb returned
LookedUp == lookup_last.op = "lookup" /\ ~lookup_last.raised

\* app_lower and title_lower of the last lookup
AskedApp == IF Truthy(lookup_last.app_name) THEN Lower(lookup_last.app_name) ELSE ""
AskedTitle ==
    IF Truthy(lookup_last.window_title) THEN Lower(lookup_last.window_title) ELSE ""

\* the rows of the user tier that the query of the last lookup selects
UserTierHits ==
    {i \in DOMAIN lookup_last.kb.user :
        \/ Like(lookup_last.kb.user[i].app_name, AskedApp)
        \/ Like(lookup_last.kb.user[i].window_title, AskedTitle)}

\* the learned reactions and context mappings that match the last lookup
LearnedHits ==
    {i \in DOMAIN lookup_last.kb.learned_reactions :
        LET r == lookup_last.kb.learned_reactions[i]
        IN  /\ ~StartsWithUnderscore(r.key)
            /\ \/ Contains(Lower(r.context_signature), AskedApp)
               \/ Contains(Lower(r.context_signature), AskedTitle)}
MappingHits ==
    {i \in DOMAIN lookup_last.kb.context_mappings :
        LET m == lookup_last.kb.context_mappings[i]
        IN  ~StartsWithUnderscore(m.key) /\ AskedApp = Lower(m.app_name)}

\* the apps and contexts of the core tier that match the last lookup
CoreAppHits ==
    {i \in DOMAIN lookup_last.kb.apps :
        \E j \in DOMAIN lookup_last.kb.apps[i].patterns :
            LET pattern == Lower(lookup_last.kb.apps[i].patterns[j])
            IN  Contains(AskedApp, pattern) \/ Contains(pattern, AskedApp)}
CoreContextHits ==
    {i \in DOMAIN lookup_last.kb.contexts :
        \E j \in DOMAIN lookup_last.kb.contexts[i].title_contains :
            Contains(AskedTitle, Lower(lookup_last.kb.contexts[i].title_contains[j]))}

UserTierMatches == UserTierHits # {}
GeminiTierMatches == LearnedHits # {} \/ MappingHits # {}
CoreTierMatches == CoreAppHits # {} \/ CoreContextHits # {}

\* C22: lookup_app_in_kb answers from the highest-priority tier that matches
\* and names it as source: "user" exactly when the user tier matches, "gemini"
\* exactly when the gemini tier matches and the user tier does not, "core"
\* exactly when only the core tier matches, and found = false exactly when no
\* tier matches; the entry it returns is an entry of the tier it names.
C22_HighestTierWins ==
    LookedUp =>
        LET r == lookup_last.result
            kb == lookup_last.kb
        IN  /\ r.source = "user" <=> UserTierMatches
            /\ r.source = "gemini" <=> (~UserTierMatches /\ GeminiTierMatches)
            /\ r.source = "core" <=>
                   (~UserTierMatches /\ ~GeminiTierMatches /\ CoreTierMatches)
            /\ ~r.found <=>
                   (~UserTierMatches /\ ~GeminiTierMatches /\ ~CoreTierMatches)
            /\ r.found <=> r.source # None
            /\ r.source = "user" =>
                   \E i \in UserTierHits : r.context_info = kb.user[i]
            /\ r.source = "gemini" =>
                   \/ \E i \in LearnedHits :
                         /\ r.context_info = kb.learned_reactions[i]
                         /\ r.reaction = kb.learned_reactions[i].reaction_text
                   \/ /\ LearnedHits = {}
                      /\ \E i \in MappingHits :
                            r.context_info = kb.context_mappings[i]
            /\ r.source = "core" =>
                   \/ \E i \in CoreAppHits :
                         /\ r.app_info = kb.apps[i]
                         /\ r.reaction = kb.apps[i].default_reaction
                   \/ /\ CoreAppHits = {}
                      /\ \E i \in CoreContextHits :
                            /\ r.context_info = kb.contexts[i]
                            /\ r.reaction = kb.contexts[i].default_reaction

\* the three tiers all hold the context and the lookup answers from the user tier
C22_Witness ==
    /\ LookedUp
    /\ UserTierMatches /\ GeminiTierMatches /\ CoreTierMatches
    /\ lookup_last.result.source = "user"
    /\ lookup_last.result.context_info = UserRows[1]

(***************************************************************************)
(* Properties of the gate under two threads.                               *)
(***************************************************************************)
\* the last get_stats copied _stats while a check call was under way
CopiedDuringCheck ==
    stats_thread.pc = "idle" /\ stats_thread.during.pc # "idle"

\* C21: a get_stats call that runs while a check call is under way returns an
\* atomic snapshot: the counters it returns are the gate's counters as they
\* were before that check or as they are after it, never a set of counters
\* that check has updated in part.
C21_StatsSnapshotAtomic ==
    CopiedDuringCheck =>
        stats_thread.returned.counters
            \in {stats_thread.during.before, stats_thread.during.call.stats}

(***************************************************************************)
(* Properties of the aggregate flags of an episode.                        *)
(***************************************************************************)
\* some observation of the episode e was passive / focused
SawPassive(e) ==
    \E i \in DOMAIN episodes[e].observations :
        episodes[e].observations[i].features.is_passive
SawFocused(e) ==
    \E i \in DOMAIN episodes[e].observations :
        episodes[e].observations[i].features.is_focused

Extracted == sem_last.op = "extract" /\ ~sem_last.raised

\* 0.02 of the volume scale, times 100
SILENCE_THRESHOLD_X100 == 2 * VOLUME_ONE

\* C23: whenever the volume level computed for the audio of a tick is below
\* the silence threshold 0.02, the AudioFeatures returned have is_silent true
\* and has_audio false.
C23_QuietIsSilent ==
    (Extracted
     /\ 100 * sem_last.result.audio.volume_level < SILENCE_THRESHOLD_X100) =>
        /\ sem_last.result.audio.is_silent
        /\ ~sem_last.result.audio.has_audio

\* C24: extract_features never raises: every call returns a ContextFeatures
\* value, whatever the title, the audio bytes and the visual diff.
C24_ExtractNeverRaises ==
    sem_last.op = "extract" => ~sem_last.raised

\* audio_bytes is absent, too short, or not a whole number of int16 samples
Malformed(audio_bytes) ==
    \/ ~audio_bytes.present
    \/ audio_bytes.nbytes < 100
    \/ audio_bytes.nbytes % 2 # 0

\* C25: absent or malformed audio gives AudioFeatures with is_silent true,
\* has_audio false and volume_level 0; an empty or absent title gives a
\* ParsedTitle whose optional fields are all None, even when an app name was
\* supplied.
C25_DefaultsOnBadInput ==
    Extracted =>
        /\ Malformed(sem_last.audio_bytes) =>
               /\ sem_last.result.audio.is_silent
               /\ ~sem_last.result.audio.has_audio
               /\ sem_last.result.audio.volume_level = 0
        /\ sem_last.window_title = <<>> =>
               /\ sem_last.result.title.app_name = None
               /\ sem_last.result.title.file_name = None
               /\ sem_last.result.title.file_extension = None
               /\ sem_last.result.title.project_name = None
               /\ sem_last.result.title.url_domain = None
               /\ sem_last.result.title.platform = None
               /\ sem_last.result.title.content_title = None

\* an empty title with an app name and music cut to an odd number of bytes,
\* on a layer that heard loud audio before
C25_Witness ==
    /\ Extracted
    /\ sem_last.window_title = <<>> /\ sem_last.app_name = "Code.exe"
    /\ sem_last.audio_bytes = OddMusic
    /\ last_volume > 0
    /\ sem_last.result.title.app_name = None
    /\ sem_last.result.audio.is_silent
    /\ sem_last.result.audio.volume_level = 0

\* the eight rules of the decision list, in order, for the last classification
ActivityRules ==
    LET title == sem_last.result.title
        music == sem_last.result.audio.is_music_like
        audio == sem_last.result.audio.has_audio
        video == sem_last.result.visual.is_video_playing
        kb == sem_last.has_kb
        mouse == sem_last.has_mouse
    IN  << <<title.file_extension \in FILE_EXTENSIONS, "coding">>,
           <<title.platform \in {"YouTube", "Twitch", "Netflix"} \/ (video /\ music),
             "media">>,
           <<title.platform = "Spotify" \/ (music /\ ~video), "music">>,
           <<title.platform \in {"Discord", "Slack"}
                \/ title.app_name \in {"Discord", "Slack"}, "communication">>,
           <<title.platform \in {"GitHub", "Stack Overflow"}, "research">>,
           <<title.url_domain # None /\ mouse /\ ~kb, "browsing">>,
           <<video /\ audio /\ ~kb, "gaming">>,
           <<TRUE, "general">> >>

C27_PassiveAndFocused ==
    Extracted =>
        LET f == sem_last.result
        IN  /\ f.is_passive <=>
                   \/ f.visual.is_video_playing
                   \/ (f.audio.is_music_like /\ ~sem_last.has_kb)
                   \/ f.title.platform \in {"YouTube", "Twitch", "Netflix"}
            /\ f.is_focused <=>
                   /\ sem_last.has_kb
                   /\ ~f.audio.has_audio
                   /\ f.visual.is_stable
                   /\ f.title.file_extension \in FILE_EXTENSIONS

\* the editor window, typed into, silent and still: coding, focused, not passive
C27_Witness ==
    /\ Extracted
    /\ sem_last.window_title = <<"main.py", "myproj", "Visual Studio Code">>
    /\ sem_last.has_kb /\ sem_last.audio_bytes = NoAudio
    /\ sem_last.visual_diff = 0
    /\ sem_last.samples = 3 /\ last_volume > 0
    /\ sem_last.result.activity_type = "coding"
    /\ sem_last.result.is_focused
    /\ ~sem_last.result.is_passive

\* the i-th of the last five change percentages
RecentSample(i) == change_history[Len(change_history) - 5 + i]

C29_DeltaFromPreviousTick ==
    (Extracted /\ sem_last.prev_returned) =>
        sem_last.result.audio.volume_delta
            = sem_last.result.audio.volume_level - sem_last.prev_volume

(***************************************************************************)
(* Properties of the samples an episode retains.                           *)
(***************************************************************************)
\* the bytes given with the observations of episode e, in their order
ImagesGiven(e) ==
    [i \in 1..Len(episodes[e].observations) |->
        given[episodes[e].observations[i].seq].image_bytes]
AudioGiven(e) ==
    [i \in 1..Len(episodes[e].observations) |->
        given[episodes[e].observations[i].seq].audio_bytes]

\* the first of the samples q that passes the test, None when there is none
FirstOf(q, Test(_)) ==
    LET hits == {i \in 1..Len(q) : Test(q[i])}
    IN  IF hits = {} THEN None
        ELSE q[CHOOSE i \in hits : \A j \in hits : i <= j]

NonNull(b) == b # None

\* C31: the image (the audio) an episode retains is the first non-null image
\* (audio) given with an observation of that episode, and null when no
\* observation of the episode had one.
C31_FirstNonNullSample ==
    \A e \in DOMAIN episodes :
        /\ episodes[e].selected_image_bytes = FirstOf(ImagesGiven(e), NonNull)
        /\ episodes[e].selected_audio_bytes = FirstOf(AudioGiven(e), NonNull)

\* what the code keeps: the first sample that is neither None nor empty
FirstNonEmptySample ==
    \A e \in DOMAIN episodes :
        /\ episodes[e].selected_image_bytes = FirstOf(ImagesGiven(e), Truthy)
        /\ episodes[e].selected_audio_bytes = FirstOf(AudioGiven(e), Truthy)

(***************************************************************************)
(* Properties of an episode's primary activity.                            *)
(***************************************************************************)
\* the activity is set and is not "general"
Specific(activity) == Truthy(activity) /\ activity # "general"

\* C32: once an episode's primary activity is a value other than "general",
\* no later observation of the episode replaces it, neither by another
\* activity nor by "general".
C32_ActivityOnlyRefined ==
    [][\A e \in DOMAIN episodes :
          Specific(episodes[e].primary_activity) =>
              episodes'[e].primary_activity = episodes[e].primary_activity]_vars

(***************************************************************************)
(* Properties of what add_observation returns.                             *)
(***************************************************************************)
\* the episodes a step closes
ClosedByStep ==
    {e \in DOMAIN episodes :
        episodes[e].state = "ACTIVE" /\ episodes'[e].state = "CLOSED"}

\* the step is a call of add_observation, whatever the tick
AddObservationStep == calls' = calls + 1

\* C33: add_observation returns an episode exactly when the call closed one;
\* the episode returned is the one that was active before the call, it is
\* CLOSED, and it is the episode the call appended to the pending queue and
\* to the history; otherwise the call returns None, closes nothing and leaves
\* the queue and the history as they were.
C33_ReturnsWhatItClosed ==
    [][AddObservationStep =>
          IF last'.returned # NoEpisode
          THEN /\ ClosedByStep = {last'.returned}
               /\ last'.returned = current_episode
               /\ episodes'[last'.returned].state = "CLOSED"
               /\ pending_episodes' = Append(pending_episodes, last'.returned)
               /\ episode_history'
                      = LastN(Append(episode_history, last'.returned), 50)
          ELSE /\ ClosedByStep = {}
               /\ pending_episodes' = pending_episodes
               /\ episode_history' = episode_history]_vars

\* add_observation closed the second episode and returned it: it is the last
\* of two in the queue and in the history, and a third episode is active
C33_Witness ==
    /\ last.op = "add"
    /\ last.returned = 2
    /\ last.had = 2
    /\ episodes[2].state = "CLOSED"
    /\ pending_episodes = <<1, 2>>
    /\ episode_history = <<1, 2>>
    /\ current_episode = 3

(***************************************************************************)
(* Properties of a stream of identical observations.                       *)
(***************************************************************************)
\* observation o carries the title, the app name and the features of p
SameContext(o, p) ==
    /\ o.window_title = p.window_title
    /\ o.app_name = p.app_name
    /\ o.features = p.features

\* C34: observations that all carry the title, the app name and the features
\* of the episode's first observation never close the episode before
\* max_duration is exceeded, also when the app name given is empty and the
\* app is derived from the title.
C34_SameStreamStaysOpen ==
    (/\ last.op = "add"
     /\ last.returned # NoEpisode
     /\ \A i \in DOMAIN episodes[last.returned].observations :
            SameContext(episodes[last.returned].observations[i], last.obs))
    => last.obs.timestamp - episodes[last.returned].start_time > max_duration

(***************************************************************************)
(* Properties of the GateResult.                                           *)
(***************************************************************************)
\* the last call of check returned a GateResult
Returned ==
    gate_last.op = "check" /\ gate_last.result.decision \notin {"none", "raised"}

\* C35: in every GateResult check returns, should_call_gemini is true exactly
\* when the decision is UNKNOWN_URGENT, the reaction is non-empty exactly when
\* the decision is KNOWN_USE_TEMPLATE, the source is set exactly when the
\* decision is KNOWN_USE_TEMPLATE or KNOWN_SKIP, and the decision is never
\* KNOWN_USE_CACHE.
C35_ResultConsistent ==
    Returned =>
        LET r == gate_last.result
        IN  /\ r.should_call_gemini <=> r.decision = "UNKNOWN_URGENT"
            /\ Truthy(r.reaction) <=> r.decision = "KNOWN_USE_TEMPLATE"
            /\ r.source # None
                   <=> r.decision \in {"KNOWN_USE_TEMPLATE", "KNOWN_SKIP"}
            /\ r.decision # "KNOWN_USE_CACHE"

\* an unforced check of an unknown context was queued: no call of Gemini, no
\* reaction and no source
C35_Witness ==
    /\ Returned /\ ~gate_last.forced
    /\ ~gate_last.lookup.found
    /\ gate_last.result.decision = "UNKNOWN_QUEUE"
    /\ ~gate_last.result.should_call_gemini
    /\ gate_last.result.reaction = None
    /\ gate_last.result.source = None

(***************************************************************************)
(* Focused and passive together.                                           *)
(***************************************************************************)
\* C36: after any sequence of ticks, no ContextFeatures extract_features
\* returns has both is_focused and is_passive true.
C36_NeverFocusedAndPassive ==
    Extracted => ~(sem_last.result.is_focused /\ sem_last.result.is_passive)

(***************************************************************************)
(* The aggregator's structural invariant.                                  *)
(***************************************************************************)
\* the episodes in the pending queue or in the history
Kept ==
    {pending_episodes[i] : i \in DOMAIN pending_episodes}
        \cup {episode_history[i] : i \in DOMAIN episode_history}

\* C37: in every reachable state each episode in pending_episodes or in
\* episode_history is CLOSED, has its end time set and has
\* total_duration = end_time - start_time >= 0; the current episode, when
\* there is one, is ACTIVE, has no end time, and is neither in
\* pending_episodes nor in episode_history.
C37_KeptClosedCurrentActive ==
    /\ \A e \in Kept :
          /\ episodes[e].state = "CLOSED"
          /\ episodes[e].end_time # NoTime
          /\ episodes[e].total_duration
                 = episodes[e].end_time - episodes[e].start_time
          /\ episodes[e].total_duration >= 0
    /\ current_episode # NoEpisode =>
          /\ episodes[current_episode].state = "ACTIVE"
          /\ episodes[current_episode].end_time = NoTime
          /\ current_episode \notin Kept

\* the first episode was drained and is in the history alone, the second
\* lasted some time and is queued, and the third is active
C37_Witness ==
    /\ episode_history = <<1, 2>>
    /\ pending_episodes = <<2>>
    /\ episodes[2].total_duration > 0
    /\ current_episode = 3
    /\ episodes[3].observations # <<>>

(***************************************************************************)
(* The user tier in check, and empty search terms in the lookup.           *)
(***************************************************************************)
\* C38: whenever the user tier matches the context check looks up, check
\* returns KNOWN_SKIP with no reaction, also when the gemini or the core tier
\* holds a reaction for the same app or title; a KNOWN_USE_TEMPLATE result
\* never has the source "user".
C38_UserTierSkips ==
    /\ (gate_last.op = "check" /\ LookedUp /\ UserTierMatches) =>
            /\ gate_last.result.decision = "KNOWN_SKIP"
            /\ gate_last.result.source = "user"
            /\ gate_last.result.reaction = None
    /\ (Returned /\ gate_last.result.decision = "KNOWN_USE_TEMPLATE") =>
            gate_last.result.source # "user"

\* the reactions the gemini and the core tier hold for the context looked up
LowerTierReactions ==
    {lookup_last.kb.learned_reactions[i].reaction_text : i \in LearnedHits}
        \cup {lookup_last.kb.apps[i].default_reaction : i \in CoreAppHits}
        \cup {lookup_last.kb.contexts[i].default_reaction : i \in CoreContextHits}

\* the browser on YouTube is in the user tier, the gemini tier has a learned
\* reaction for it and the core tier a default one: the call skipped
C38_Witness ==
    /\ gate_last.op = "check" /\ LookedUp /\ UserTierMatches
    /\ lookup_last.app_name = "chrome.exe"
    /\ lookup_last.window_title = "Lo-fi Beats - YouTube"
    /\ {"nice beats", "enjoy the video"} \subseteq LowerTierReactions
    /\ gate_last.result.decision = "KNOWN_SKIP"
    /\ gate_last.result.reaction = None

\* the entries of any tier that the app name, resp. the title, matches
AppNameHits ==
    \/ \E i \in DOMAIN lookup_last.kb.user :
           Like(lookup_last.kb.user[i].app_name, AskedApp)
    \/ \E i \in DOMAIN lookup_last.kb.learned_reactions :
           LET r == lookup_last.kb.learned_reactions[i]
           IN  /\ ~StartsWithUnderscore(r.key)
               /\ Contains(Lower(r.context_signature), AskedApp)
    \/ MappingHits # {}
    \/ CoreAppHits # {}
TitleHits ==
    \/ \E i \in DOMAIN lookup_last.kb.user :
           Like(lookup_last.kb.user[i].window_title, AskedTitle)
    \/ \E i \in DOMAIN lookup_last.kb.learned_reactions :
           LET r == lookup_last.kb.learned_reactions[i]
           IN  /\ ~StartsWithUnderscore(r.key)
               /\ Contains(Lower(r.context_signature), AskedTitle)
    \/ CoreContextHits # {}

\* C39: an empty app name or an empty window title never makes an entry match
\* by itself: lookup_app_in_kb reports found = true only when the app name is
\* not empty and matches an entry, or the title is not empty and matches an
\* entry; with both empty it reports found = false whatever the knowledge
\* bases hold.
C39_EmptyTermNeverMatches ==
    (LookedUp /\ lookup_last.result.found) =>
        \/ AskedApp # "" /\ AppNameHits
        \/ AskedTitle # "" /\ TitleHits

(***************************************************************************)
(* Properties of the AppTracker.                                           *)
(***************************************************************************)
\* two rows of app_activity cover a common stretch of time
Overlap(r, q) == r.start < q.end /\ q.start < r.end

\* C40: over any sequence of start, poll iterations and stop, also with stop
\* followed by start and with stop running beside the poll thread, no period
\* of focus is recorded by add_app_activity more than once: the periods the
\* rows cover never overlap.
C40_FocusRecordedOnce ==
    \A i, j \in DOMAIN app_activity :
        i # j => ~Overlap(app_activity[i], app_activity[j])

====
